---- MODULE Spec2Model ----
(***************************************************************************)
(* Model of the AI-agents directory core: the rating store                 *)
(* (rating_system.py), the relevance search (intelligent_search.py) and    *)
(* the catalog filtering (data_loader.py).                                 *)
(*                                                                         *)
(* Strings that the code inspects character by character (strip, lower,    *)
(* substring tests) are sequences of one-character strings.  Timestamps    *)
(* are the integer rank of the ISO-8601 string datetime.now().isoformat()  *)
(* produces: for dates of one format the string order is the time order.   *)
(* Averages are kept in tenths (44 stands for 4.4).                         *)
(***************************************************************************)
EXTENDS Integers, Sequences, FiniteSets, TLC

VARIABLES
    ratings,    \* [Instances -> Seq(entry)]: self.ratings of each RatingSystem
    alive,      \* the RatingSystem instances constructed so far
    file,       \* the ratings file: [exists |-> BOOLEAN, data |-> Seq(entry)]
    writable,   \* whether open(ratings_file, 'w') succeeds
    pc,         \* [Callers -> {"idle", "save"}]: position inside add_rating
    pos,        \* [Callers -> Nat]: index in self.ratings of the entry the caller appended
    agents,     \* DataLoader.agents: the catalog, a sequence of Agent records
    user_agents_file,   \* user_agents.json: [exists, parses, rows |-> Seq(record)]
    scrape,     \* the running scrape_with_retry call: its arguments, loop index and result
    last        \* the call that returned last, with its arguments and result

vars == <<ratings, alive, file, writable, pc, pos, agents, user_agents_file, scrape, last>>

----------------------------------------------------------------------------
(* Bounds and input sets *)

MaxRatings == 2          \* longest rating list explored by Spec
MaxConcRatings == 2      \* longest rating list explored by SpecConc
MaxAggRatings == 6       \* longest rating list explored by SpecAgg
MaxReviewRatings == 6    \* longest rating list explored by SpecReviews
MaxTopRatings == 5       \* longest rating list explored by SpecTop
MaxLimit == 3            \* largest limit passed to get_top_rated_agents by SpecTop
MaxCatalog == 2          \* longest catalog explored by SpecSearch
MaxNameLen == 3          \* longest raw name explored by SpecNorm
MaxUserRecords == 2      \* most records of user_agents.json explored by SpecLoad
MaxRouteRatings == 2     \* longest rating list explored by SpecRoutes
MaxSubmissions == 2      \* most records of user_agents.json explored by SpecSubmit
MaxRetries == 3          \* largest max_retries passed to scrape_with_retry by SpecScrape

Instances == {"i1", "i2"}
Callers == {"c1", "c2", "c3"}
\* c1 and c2 are threads sharing one RatingSystem, c3 uses a second
\* RatingSystem opened on the same ratings file.
instOf(c) == IF c = "c3" THEN "i2" ELSE "i1"

SlugX == <<"x">>
SlugY == <<"y">>
SlugZ == <<"z">>
Slugs == {SlugX, SlugY}

Blank == <<>>
Good == <<"o", "k">>
Feedbacks == {Blank, <<" ">>, Good, <<" ", "o", "k", " ">>}
Users == {Blank, <<"u">>}
Anonymous == <<"a", "n", "o", "n", "y", "m", "o", "u", "s">>

----------------------------------------------------------------------------
(* Helpers standing for Python built-ins *)

IsSpace(ch) == ch \in {" ", "\t", "\n"}

RECURSIVE LStrip(_)
LStrip(s) == IF s # <<>> /\ IsSpace(Head(s)) THEN LStrip(Tail(s)) ELSE s

RECURSIVE RStrip(_)
RStrip(s) ==
    IF s # <<>> /\ IsSpace(s[Len(s)]) THEN RStrip(SubSeq(s, 1, Len(s) - 1)) ELSE s

\* str.strip()
Strip(s) == RStrip(LStrip(s))

RECURSIVE Sum(_)
Sum(s) == IF s = <<>> THEN 0 ELSE Head(s) + Sum(Tail(s))

\* seq[:n] for n >= 0
Take(s, n) == SubSeq(s, 1, IF n < Len(s) THEN n ELSE Len(s))

Round1_Truncated(total, n) == (10 * total) \div n

\* round(total / n, 1) in tenths: Python rounds the float quotient to the
\* nearest tenth, an exact tie (a quarter, exactly representable) to the even
\* tenth.
Round1(total, n) ==
    LET t == (10 * total) \div n
        rem == 10 * total - t * n
    IN  IF 2 * rem > n THEN t + 1
        ELSE IF 2 * rem = n /\ t % 2 = 1 THEN t + 1
        ELSE t

\* Python's order on tuples of integers: a > b, lexicographically
RECURSIVE TupleGreater(_, _)
TupleGreater(a, b) ==
    IF a = <<>> THEN FALSE
    ELSE IF b = <<>> THEN TRUE
    ELSE IF Head(a) # Head(b) THEN Head(a) > Head(b)
    ELSE TupleGreater(Tail(a), Tail(b))

\* sorted(..., key=..., reverse=True) and list.sort(key=..., reverse=True) on a
\* sequence of <<key, item>> pairs: descending by key, and stable (items of
\* equal key keep their original order).
RECURSIVE InsertDesc_BeforeEqual(_, _)
InsertDesc_BeforeEqual(x, s) ==
    IF s = <<>> THEN <<x>>
    ELSE IF ~TupleGreater(Head(s)[1], x[1]) THEN <<x>> \o s
    ELSE <<Head(s)>> \o InsertDesc_BeforeEqual(x, Tail(s))

RECURSIVE InsertDesc(_, _)
InsertDesc(x, s) ==
    IF s = <<>> THEN <<x>>
    ELSE IF TupleGreater(x[1], Head(s)[1]) THEN <<x>> \o s
    ELSE <<Head(s)>> \o InsertDesc(x, Tail(s))

RECURSIVE SortDesc(_)
SortDesc(s) ==
    IF s = <<>> THEN <<>>
    ELSE InsertDesc(s[Len(s)], SortDesc(SubSeq(s, 1, Len(s) - 1)))

Items(pairs) == [i \in 1..Len(pairs) |-> pairs[i][2]]

----------------------------------------------------------------------------
(* rating_system.py *)

\* _load_ratings: the stored list, [] when the file is absent
_load_ratings(f) == IF f.exists THEN f.data ELSE <<>>

ValidRating_UpToSix(rating) == 1 <= rating /\ rating <= 6

\* the validation `1 <= rating <= 5` of add_rating
ValidRating(rating) == 1 <= rating /\ rating <= 5

\* the rating_entry dict built by add_rating
rating_entry(slug, rating, feedback, user, now) ==
    [agent_slug |-> slug,
     rating |-> rating,
     feedback |-> Strip(feedback),
     timestamp |-> now,
     user_identifier |-> IF user # <<>> THEN user ELSE Anonymous]

append_rating_OnCopy(list, e) == list

append_rating_AtFront(list, e) == <<e>> \o list

\* self.ratings.append(rating_entry)
append_rating(list, e) == Append(list, e)

\* _save_ratings: open(ratings_file, 'w') and dump the whole list; an
\* exception is logged and swallowed, the file is left as it was.
_save_ratings(f, list, canWrite) ==
    IF canWrite THEN [exists |-> TRUE, data |-> list] ELSE f

\* the value add_rating returns after _save_ratings has run
add_rating_result(canWrite) == TRUE

\* The ratings of one slug, in list order
AgentRatings(list, slug) == SelectSeq(list, LAMBDA r : r.agent_slug = slug)

RatingsValues(list) == [i \in 1..Len(list) |-> list[i].rating]

RECURSIVE Breakdown(_)
Breakdown(values) ==
    IF values = <<>> THEN [k \in 1..5 |-> 0]
    ELSE LET b == Breakdown(SubSeq(values, 1, Len(values) - 1))
             v == values[Len(values)]
         IN  [b EXCEPT ![v] = @ + 1]

HasFeedback(r) == Strip(r.feedback) # <<>>

NewestFirst_Unsorted(list) == list

\* sorted(agent_ratings, key=lambda x: x['timestamp'], reverse=True)
NewestFirst(list) ==
    Items(SortDesc([i \in 1..Len(list) |-> <<(<<list[i].timestamp>>), list[i]>>]))

RecentReviewLimit == 5

get_agent_ratings(list, slug) ==
    LET agent_ratings == AgentRatings(list, slug)
        values == RatingsValues(agent_ratings)
    IN  IF agent_ratings = <<>>
        THEN [average_rating |-> 0, total_ratings |-> 0,
              ratings_breakdown |-> [k \in 1..5 |-> 0],
              recent_reviews |-> <<>>]
        ELSE [average_rating |-> Round1(Sum(values), Len(values)),
              total_ratings |-> Len(agent_ratings),
              ratings_breakdown |-> Breakdown(values),
              recent_reviews |->
                  Take(SelectSeq(NewestFirst(agent_ratings), HasFeedback),
                       RecentReviewLimit)]

\* for slug in agent_stats: the slugs in order of first appearance (dict order)
RECURSIVE SlugOrder(_)
SlugOrder(list) ==
    IF list = <<>> THEN <<>>
    ELSE LET init == SlugOrder(SubSeq(list, 1, Len(list) - 1))
             slug == list[Len(list)].agent_slug
         IN  IF \E i \in 1..Len(init) : init[i] = slug THEN init
             ELSE Append(init, slug)

\* the dict appended to top_agents for one slug
top_agent(list, slug) ==
    LET ratings_list == RatingsValues(AgentRatings(list, slug))
    IN  [agent_slug |-> slug,
         average_rating |-> Round1(Sum(ratings_list), Len(ratings_list)),
         total_ratings |-> Len(ratings_list)]

\* seq[:n], n of either sign
Slice(s, n) ==
    IF n >= 0 THEN Take(s, n)
    ELSE SubSeq(s, 1, IF Len(s) + n > 0 THEN Len(s) + n ELSE 0)

top_key_CountFirst(a) == <<a.total_ratings, a.average_rating>>

\* the key lambda x: (x['average_rating'], x['total_ratings'])
top_key(a) == <<a.average_rating, a.total_ratings>>

qualifying_agents_NoMinimum(list, min_ratings) ==
    LET order == SlugOrder(list)
    IN  [i \in 1..Len(order) |-> top_agent(list, order[i])]

\* top_agents before the sort: one dict per slug with len(ratings_list) >= min_ratings
qualifying_agents(list, min_ratings) ==
    LET order == SlugOrder(list)
        all == [i \in 1..Len(order) |-> top_agent(list, order[i])]
    IN  SelectSeq(all, LAMBDA a : a.total_ratings >= min_ratings)

get_top_rated_agents(list, min_ratings, limit) ==
    LET top_agents == qualifying_agents(list, min_ratings)
        sorted == Items(SortDesc([i \in 1..Len(top_agents) |->
                                     <<top_key(top_agents[i]), top_agents[i]>>]))
    IN  Slice(sorted, limit)

get_recent_reviews(list, limit) ==
    Slice(NewestFirst(SelectSeq(list, HasFeedback)), limit)

----------------------------------------------------------------------------
(* Python string operations on sequences of characters *)

UpperCase == <<"A", "B", "C", "D", "E", "F", "G", "H", "I", "J", "K", "L", "M", "N", "O", "P", "Q", "R", "S", "T", "U", "V", "W", "X", "Y", "Z">>
LowerCase == <<"a", "b", "c", "d", "e", "f", "g", "h", "i", "j", "k", "l", "m", "n", "o", "p", "q", "r", "s", "t", "u", "v", "w", "x", "y", "z">>
Digits == <<"0", "1", "2", "3", "4", "5", "6", "7", "8", "9">>

Range(s) == {s[k] : k \in 1..Len(s)}

\* str.lower() of one character
LowerChar(ch) ==
    IF ch \in Range(UpperCase)
    THEN LowerCase[CHOOSE k \in 1..Len(UpperCase) : UpperCase[k] = ch]
    ELSE ch

\* str.lower()
Lower(s) == [k \in 1..Len(s) |-> LowerChar(s[k])]

\* the regex class \w
IsWordChar(ch) ==
    ch \in Range(UpperCase) \cup Range(LowerCase) \cup Range(Digits) \cup {"_"}

\* s.startswith(prefix)
StartsWith(s, prefix) ==
    Len(prefix) <= Len(s) /\ SubSeq(s, 1, Len(prefix)) = prefix

\* sub in s
Contains(sub, s) ==
    \E k \in 0..(Len(s) - Len(sub)) : SubSeq(s, k + 1, k + Len(sub)) = sub

\* a + b + ... for a sequence of strings
RECURSIVE Concat(_)
Concat(parts) == IF parts = <<>> THEN <<>> ELSE Head(parts) \o Concat(Tail(parts))

\* s.split(sep) for a one-character separator
RECURSIVE Split(_, _)
Split(s, sep) ==
    IF \A k \in 1..Len(s) : s[k] # sep THEN <<s>>
    ELSE LET k == CHOOSE j \in 1..Len(s) :
                      s[j] = sep /\ \A m \in 1..(j - 1) : s[m] # sep
         IN  <<SubSeq(s, 1, k - 1)>> \o Split(SubSeq(s, k + 1, Len(s)), sep)

\* [x.strip() for x in s.split(';') if x.strip()]
TokenList(s) ==
    LET parts == Split(s, ";")
        stripped == [k \in 1..Len(parts) |-> Strip(parts[k])]
    IN  SelectSeq(stripped, LAMBDA x : x # <<>>)

\* s.strip('-')
RECURSIVE StripHyphens(_)
StripHyphens(s) ==
    IF s # <<>> /\ Head(s) = "-" THEN StripHyphens(Tail(s))
    ELSE IF s # <<>> /\ s[Len(s)] = "-" THEN StripHyphens(SubSeq(s, 1, Len(s) - 1))
    ELSE s

----------------------------------------------------------------------------
(* models.py *)

\* re.sub(r'[^\w\s-]', '', s)
RemoveSpecial(s) ==
    SelectSeq(s, LAMBDA ch : IsWordChar(ch) \/ IsSpace(ch) \/ ch = "-")

IsHyphenOrSpace(ch) == ch = "-" \/ IsSpace(ch)

RECURSIVE SkipHyphensAndSpaces(_)
SkipHyphensAndSpaces(s) ==
    IF s # <<>> /\ IsHyphenOrSpace(Head(s)) THEN SkipHyphensAndSpaces(Tail(s)) ELSE s

\* re.sub(r'[-\s]+', '-', s)
RECURSIVE CollapseHyphens(_)
CollapseHyphens(s) ==
    IF s = <<>> THEN <<>>
    ELSE IF IsHyphenOrSpace(Head(s))
    THEN <<"-">> \o CollapseHyphens(SkipHyphensAndSpaces(s))
    ELSE <<Head(s)>> \o CollapseHyphens(Tail(s))

_create_slug(name) == StripHyphens(CollapseHyphens(RemoveSpecial(Lower(name))))

PricingFree == <<"F", "r", "e", "e">>
PricingFreemium == <<"F", "r", "e", "e", "m", "i", "u", "m">>
PricingPaid == <<"P", "a", "i", "d">>
PaidWords == {<<"p", "a", "i", "d">>, <<"$">>, <<"s", "u", "b", "s", "c", "r", "i", "p", "t", "i", "o", "n">>, <<"p", "l", "a", "n">>}

_clean_pricing(raw) ==
    LET pricing == Strip(raw)
    IN  IF pricing = <<>> \/ Lower(pricing) \in {<<"f", "r", "e", "e">>, <<>>} THEN PricingFree
        ELSE IF Contains(<<"f", "r", "e", "e", "m", "i", "u", "m">>, Lower(pricing)) THEN PricingFreemium
        ELSE IF \E word \in PaidWords : Contains(word, Lower(pricing)) THEN PricingPaid
        ELSE pricing

UrlPlaceholders == {<<"n", "a", "n">>, <<"n", "o", "n", "e">>, <<"n", "u", "l", "l">>, <<>>}

_clean_url(raw) ==
    IF raw = <<>> \/ Lower(raw) \in UrlPlaceholders THEN <<>>
    ELSE LET url == Strip(raw)
         IN  IF StartsWith(url, <<"h", "t", "t", "p", ":", "/", "/">>) \/ StartsWith(url, <<"h", "t", "t", "p", "s", ":", "/", "/">>) THEN url
             ELSE IF StartsWith(url, <<"/">>) THEN url
             ELSE IF /\ Contains(<<".">>, url)
                     /\ ~StartsWith(url, <<"f", "t", "p", ":", "/", "/">>)
                     /\ ~StartsWith(url, <<"f", "i", "l", "e", ":", "/", "/">>)
                  THEN <<"h", "t", "t", "p", "s", ":", "/", "/">> \o url
             ELSE url

DefaultUseCase == <<"G", "e", "n", "e", "r", "a", "l">>
DefaultDomain == <<"G", "e", "n", "e", "r", "a", "l", " ", "A", "I">>

\* Agent(...) with __post_init__: the raw fields and the fields derived from them
Agent(raw) ==
    LET domain_list == TokenList(raw.domains)
        use_case_list == TokenList(raw.use_cases)
    IN  [name |-> raw.name,
         domains |-> raw.domains,
         use_cases |-> raw.use_cases,
         short_desc |-> raw.short_desc,
         long_desc |-> raw.long_desc,
         creator |-> raw.creator,
         platform |-> raw.platform,
         pricing |-> raw.pricing,
         underlying_model |-> raw.underlying_model,
         slug |-> _create_slug(raw.name),
         domain_list |-> domain_list,
         use_case_list |-> use_case_list,
         platform_list |-> TokenList(raw.platform),
         pricing_clean |-> _clean_pricing(raw.pricing),
         primary_use_case |-> IF use_case_list # <<>> THEN use_case_list[1] ELSE DefaultUseCase,
         primary_domain |-> IF domain_list # <<>> THEN domain_list[1] ELSE DefaultDomain,
         url |-> _clean_url(raw.url)]

----------------------------------------------------------------------------
(* fuzzywuzzy.fuzz on difflib.SequenceMatcher (strings shorter than the 200 *)
(* characters at which difflib starts to treat popular characters as junk) *)

SetMax(S) == CHOOSE x \in S : \A y \in S : y <= x
SetMin(S) == CHOOSE x \in S : \A y \in S : x <= y

\* length of the common run of a[i:ahi] and b[j:bhi] from their first
\* characters (offsets count from 0, as in Python)
RECURSIVE RunLen(_, _, _, _, _, _)
RunLen(a, b, i, j, ahi, bhi) ==
    IF i < ahi /\ j < bhi /\ a[i + 1] = b[j + 1]
    THEN 1 + RunLen(a, b, i + 1, j + 1, ahi, bhi)
    ELSE 0

\* the common run lengths over the window a[alo:ahi], b[blo:bhi]
run_sizes(a, b, alo, ahi, blo, bhi) ==
    [i \in alo..(ahi - 1), j \in blo..(bhi - 1) |-> RunLen(a, b, i, j, ahi, bhi)]

\* the block of size k that starts at i in a: the one starting earliest in b
earliest_in_b(run, i, blo, bhi, k) ==
    <<i, SetMin({y \in blo..(bhi - 1) : run[i, y] = k}), k>>

\* the block of size k starting earliest in a, then earliest in b
earliest_block(run, alo, ahi, blo, bhi, k) ==
    IF k = 0 THEN <<alo, blo, 0>>
    ELSE earliest_in_b(run,
                       SetMin({x \in alo..(ahi - 1) : \E y \in blo..(bhi - 1) : run[x, y] = k}),
                       blo, bhi, k)

longest_block(run, alo, ahi, blo, bhi) ==
    earliest_block(run, alo, ahi, blo, bhi,
                   SetMax({run[i, j] : i \in alo..(ahi - 1), j \in blo..(bhi - 1)} \cup {0}))

\* SequenceMatcher.find_longest_match: the longest block a[i:i+k] = b[j:j+k]
\* inside the window a[alo:ahi], b[blo:bhi], the one starting earliest in a,
\* then earliest in b
find_longest_match(a, b, alo, ahi, blo, bhi) ==
    longest_block(run_sizes(a, b, alo, ahi, blo, bhi), alo, ahi, blo, bhi)

\* SequenceMatcher.get_matching_blocks without the closing (la, lb, 0) block:
\* the longest match m, then the same to its left and to its right
RECURSIVE matching_blocks(_, _, _, _, _, _)
around_match(a, b, alo, ahi, blo, bhi, m) ==
    IF m[3] = 0 THEN <<>>
    ELSE (IF alo < m[1] /\ blo < m[2]
          THEN matching_blocks(a, b, alo, m[1], blo, m[2]) ELSE <<>>)
         \o <<m>>
         \o (IF m[1] + m[3] < ahi /\ m[2] + m[3] < bhi
             THEN matching_blocks(a, b, m[1] + m[3], ahi, m[2] + m[3], bhi) ELSE <<>>)

matching_blocks(a, b, alo, ahi, blo, bhi) ==
    around_match(a, b, alo, ahi, blo, bhi, find_longest_match(a, b, alo, ahi, blo, bhi))

get_matching_blocks(a, b) ==
    Append(matching_blocks(a, b, 0, Len(a), 0, Len(b)), <<Len(a), Len(b), 0>>)

\* 2.0 * matches / length for the blocks found, kept as <<2 * matches, length>>
blocks_ratio(blocks, length) ==
    IF length = 0 THEN <<1, 1>>
    ELSE <<2 * Sum([n \in 1..Len(blocks) |-> blocks[n][3]]), length>>

\* SequenceMatcher.ratio()
sm_ratio(a, b) == blocks_ratio(get_matching_blocks(a, b), Len(a) + Len(b))

\* the quotients num / den for which the double 100 * (num / den) lies just
\* below a half that the exact value hits (den <= 200)
FloatBelowHalf == {<<46, 80>>, <<92, 160>>}

\* utils.intr(100 * r) = int(round(100 * r)) for r = num / den: to the nearest
\* integer, a half to the even one
intr100(r) ==
    LET num == r[1]
        den == r[2]
        q == (100 * num) \div den
        rem == 100 * num - q * den
    IN  IF 2 * rem > den THEN q + 1
        ELSE IF 2 * rem = den /\ q % 2 = 1 /\ r \notin FloatBelowHalf THEN q + 1
        ELSE q

\* fuzz.ratio
fuzz_ratio(s1, s2) ==
    IF s1 = s2 THEN 100
    ELSE IF Len(s1) = 0 \/ Len(s2) = 0 THEN 0
    ELSE intr100(sm_ratio(s1, s2))

\* a[lo:hi] with Python's clamping
PySlice(s, lo, hi) == SubSeq(s, lo + 1, IF hi < Len(s) THEN hi ELSE Len(s))

RatioGreater(r1, r2) == r1[1] * r2[2] > r2[1] * r1[2]

RECURSIVE MaxRatio(_)
MaxRatio(rs) ==
    IF Len(rs) = 1 THEN rs[1]
    ELSE LET m == MaxRatio(Tail(rs))
         IN  IF RatioGreater(m, rs[1]) THEN m ELSE rs[1]

\* the ratio of the shorter string against the window of the longer one that
\* each matching block lines up
window_ratios(shorter, longer, blocks) ==
    [n \in 1..Len(blocks) |->
        sm_ratio(shorter,
                 PySlice(longer,
                         IF blocks[n][2] - blocks[n][1] > 0
                         THEN blocks[n][2] - blocks[n][1] ELSE 0,
                         (IF blocks[n][2] - blocks[n][1] > 0
                          THEN blocks[n][2] - blocks[n][1] ELSE 0) + Len(shorter)))]

\* `if r > .995: return 100`, else the best window
best_window(scores) ==
    IF \E n \in 1..Len(scores) : RatioGreater(scores[n], <<995, 1000>>)
    THEN 100
    ELSE intr100(MaxRatio(scores))

shorter_first(shorter, longer) ==
    best_window(window_ratios(shorter, longer, get_matching_blocks(shorter, longer)))

\* fuzz.partial_ratio
fuzz_partial_ratio(s1, s2) ==
    IF s1 = s2 THEN 100
    ELSE IF Len(s1) = 0 \/ Len(s2) = 0 THEN 0
    ELSE shorter_first(IF Len(s1) <= Len(s2) THEN s1 ELSE s2,
                       IF Len(s1) <= Len(s2) THEN s2 ELSE s1)

----------------------------------------------------------------------------
(* intelligent_search.py; scores are in thousandths (488 stands for 0.488) *)

domain_keywords == <<
    <<<<"S", "o", "f", "t", "w", "a", "r", "e", " ", "D", "e", "v", "e", "l", "o", "p", "m", "e", "n", "t">>,
      {<<"c", "o", "d", "e">>,
       <<"c", "o", "d", "i", "n", "g">>,
       <<"p", "r", "o", "g", "r", "a", "m", "m", "i", "n", "g">>,
       <<"d", "e", "v", "e", "l", "o", "p", "e", "r">>,
       <<"d", "e", "v", "e", "l", "o", "p", "m", "e", "n", "t">>,
       <<"s", "o", "f", "t", "w", "a", "r", "e">>,
       <<"g", "i", "t", "h", "u", "b">>,
       <<"c", "o", "p", "i", "l", "o", "t">>,
       <<"i", "d", "e">>,
       <<"a", "u", "t", "o", "c", "o", "m", "p", "l", "e", "t", "e">>}>>,
    <<<<"W", "r", "i", "t", "i", "n", "g">>,
      {<<"w", "r", "i", "t", "i", "n", "g">>,
       <<"c", "o", "n", "t", "e", "n", "t">>,
       <<"t", "e", "x", "t">>,
       <<"a", "r", "t", "i", "c", "l", "e">>,
       <<"b", "l", "o", "g">>,
       <<"c", "o", "p", "y", "w", "r", "i", "t", "i", "n", "g">>,
       <<"g", "r", "a", "m", "m", "a", "r">>,
       <<"e", "d", "i", "t", "i", "n", "g">>,
       <<"d", "o", "c", "u", "m", "e", "n", "t", "a", "t", "i", "o", "n">>}>>,
    <<<<"M", "a", "r", "k", "e", "t", "i", "n", "g">>,
      {<<"m", "a", "r", "k", "e", "t", "i", "n", "g">>,
       <<"a", "d", "s">>,
       <<"a", "d", "v", "e", "r", "t", "i", "s", "i", "n", "g">>,
       <<"c", "a", "m", "p", "a", "i", "g", "n">>,
       <<"s", "o", "c", "i", "a", "l", " ", "m", "e", "d", "i", "a">>,
       <<"e", "m", "a", "i", "l">>,
       <<"m", "a", "i", "l", "c", "h", "i", "m", "p">>,
       <<"h", "u", "b", "s", "p", "o", "t">>,
       <<"s", "a", "l", "e", "s">>}>>,
    <<<<"P", "r", "o", "d", "u", "c", "t", "i", "v", "i", "t", "y">>,
      {<<"p", "r", "o", "d", "u", "c", "t", "i", "v", "i", "t", "y">>,
       <<"o", "r", "g", "a", "n", "i", "z", "e">>,
       <<"s", "c", "h", "e", "d", "u", "l", "e">>,
       <<"t", "a", "s", "k">>,
       <<"m", "e", "e", "t", "i", "n", "g">>,
       <<"n", "o", "t", "e", "s">>,
       <<"c", "a", "l", "e", "n", "d", "a", "r">>,
       <<"w", "o", "r", "k", "f", "l", "o", "w">>,
       <<"a", "u", "t", "o", "m", "a", "t", "i", "o", "n">>}>>,
    <<<<"I", "m", "a", "g", "e", " ", "G", "e", "n", "e", "r", "a", "t", "i", "o", "n">>,
      {<<"i", "m", "a", "g", "e">>,
       <<"p", "i", "c", "t", "u", "r", "e">>,
       <<"p", "h", "o", "t", "o">>,
       <<"v", "i", "s", "u", "a", "l">>,
       <<"a", "r", "t">>,
       <<"d", "e", "s", "i", "g", "n">>,
       <<"d", "a", "l", "l", "-", "e">>,
       <<"m", "i", "d", "j", "o", "u", "r", "n", "e", "y">>,
       <<"s", "t", "a", "b", "l", "e", " ", "d", "i", "f", "f", "u", "s", "i", "o", "n">>}>>,
    <<<<"A", "u", "d", "i", "o", " ", "G", "e", "n", "e", "r", "a", "t", "i", "o", "n">>,
      {<<"a", "u", "d", "i", "o">>,
       <<"v", "o", "i", "c", "e">>,
       <<"s", "p", "e", "e", "c", "h">>,
       <<"s", "o", "u", "n", "d">>,
       <<"m", "u", "s", "i", "c">>,
       <<"p", "o", "d", "c", "a", "s", "t">>,
       <<"t", "t", "s">>,
       <<"t", "e", "x", "t", "-", "t", "o", "-", "s", "p", "e", "e", "c", "h">>}>>,
    <<<<"V", "i", "d", "e", "o", " ", "G", "e", "n", "e", "r", "a", "t", "i", "o", "n">>,
      {<<"v", "i", "d", "e", "o">>,
       <<"a", "n", "i", "m", "a", "t", "i", "o", "n">>,
       <<"m", "o", "v", "i", "e">>,
       <<"c", "l", "i", "p">>,
       <<"m", "o", "t", "i", "o", "n">>,
       <<"m", "u", "l", "t", "i", "m", "e", "d", "i", "a">>}>>,
    <<<<"E", "d", "u", "c", "a", "t", "i", "o", "n">>,
      {<<"l", "e", "a", "r", "n">>,
       <<"e", "d", "u", "c", "a", "t", "i", "o", "n">>,
       <<"t", "e", "a", "c", "h", "i", "n", "g">>,
       <<"t", "u", "t", "o", "r">>,
       <<"s", "t", "u", "d", "y">>,
       <<"a", "c", "a", "d", "e", "m", "i", "c">>,
       <<"s", "t", "u", "d", "e", "n", "t">>,
       <<"h", "o", "m", "e", "w", "o", "r", "k">>}>>,
    <<<<"R", "e", "s", "e", "a", "r", "c", "h">>,
      {<<"r", "e", "s", "e", "a", "r", "c", "h">>,
       <<"a", "n", "a", "l", "y", "s", "i", "s">>,
       <<"d", "a", "t", "a">>,
       <<"i", "n", "f", "o", "r", "m", "a", "t", "i", "o", "n">>,
       <<"s", "t", "u", "d", "y">>,
       <<"i", "n", "v", "e", "s", "t", "i", "g", "a", "t", "i", "o", "n">>,
       <<"a", "c", "a", "d", "e", "m", "i", "c">>}>>,
    <<<<"H", "e", "a", "l", "t", "h", "c", "a", "r", "e">>,
      {<<"h", "e", "a", "l", "t", "h">>,
       <<"m", "e", "d", "i", "c", "a", "l">>,
       <<"d", "o", "c", "t", "o", "r">>,
       <<"p", "a", "t", "i", "e", "n", "t">>,
       <<"d", "i", "a", "g", "n", "o", "s", "i", "s">>,
       <<"t", "r", "e", "a", "t", "m", "e", "n", "t">>,
       <<"m", "e", "d", "i", "c", "i", "n", "e">>}>>,
    <<<<"F", "i", "n", "a", "n", "c", "e">>,
      {<<"f", "i", "n", "a", "n", "c", "e">>,
       <<"m", "o", "n", "e", "y">>,
       <<"i", "n", "v", "e", "s", "t", "m", "e", "n", "t">>,
       <<"t", "r", "a", "d", "i", "n", "g">>,
       <<"b", "a", "n", "k", "i", "n", "g">>,
       <<"a", "c", "c", "o", "u", "n", "t", "i", "n", "g">>,
       <<"b", "u", "d", "g", "e", "t">>}>>,
    <<<<"C", "u", "s", "t", "o", "m", "e", "r", " ", "S", "e", "r", "v", "i", "c", "e">>,
      {<<"c", "u", "s", "t", "o", "m", "e", "r">>,
       <<"s", "u", "p", "p", "o", "r", "t">>,
       <<"s", "e", "r", "v", "i", "c", "e">>,
       <<"h", "e", "l", "p">>,
       <<"c", "h", "a", "t">>,
       <<"t", "i", "c", "k", "e", "t">>,
       <<"a", "s", "s", "i", "s", "t", "a", "n", "c", "e">>}>>
>>

platform_keywords == <<
    <<<<"W", "e", "b">>,
      {<<"w", "e", "b">>,
       <<"b", "r", "o", "w", "s", "e", "r">>,
       <<"o", "n", "l", "i", "n", "e">>,
       <<"w", "e", "b", "s", "i", "t", "e">>}>>,
    <<<<"A", "P", "I">>,
      {<<"a", "p", "i">>,
       <<"i", "n", "t", "e", "g", "r", "a", "t", "i", "o", "n">>,
       <<"d", "e", "v", "e", "l", "o", "p", "m", "e", "n", "t">>,
       <<"p", "r", "o", "g", "r", "a", "m", "m", "a", "t", "i", "c">>}>>,
    <<<<"i", "O", "S">>,
      {<<"i", "o", "s">>,
       <<"i", "p", "h", "o", "n", "e">>,
       <<"i", "p", "a", "d">>,
       <<"m", "o", "b", "i", "l", "e">>,
       <<"a", "p", "p", " ", "s", "t", "o", "r", "e">>}>>,
    <<<<"A", "n", "d", "r", "o", "i", "d">>,
      {<<"a", "n", "d", "r", "o", "i", "d">>,
       <<"m", "o", "b", "i", "l", "e">>,
       <<"g", "o", "o", "g", "l", "e", " ", "p", "l", "a", "y">>}>>,
    <<<<"D", "e", "s", "k", "t", "o", "p">>,
      {<<"d", "e", "s", "k", "t", "o", "p">>,
       <<"c", "o", "m", "p", "u", "t", "e", "r">>,
       <<"p", "c">>,
       <<"m", "a", "c">>}>>,
    <<<<"C", "h", "r", "o", "m", "e", " ", "E", "x", "t", "e", "n", "s", "i", "o", "n">>,
      {<<"c", "h", "r", "o", "m", "e">>,
       <<"e", "x", "t", "e", "n", "s", "i", "o", "n">>,
       <<"b", "r", "o", "w", "s", "e", "r">>}>>,
    <<<<"V", "S", " ", "C", "o", "d", "e", " ", "E", "x", "t", "e", "n", "s", "i", "o", "n">>,
      {<<"v", "s", "c", "o", "d", "e">>,
       <<"v", "s", " ", "c", "o", "d", "e">>,
       <<"e", "d", "i", "t", "o", "r">>,
       <<"i", "d", "e">>}>>
>>

pricing_keywords == <<
    <<<<"F", "r", "e", "e">>,
      {<<"f", "r", "e", "e">>,
       <<"n", "o", " ", "c", "o", "s", "t">>,
       <<"g", "r", "a", "t", "i", "s">>,
       <<"z", "e", "r", "o", " ", "c", "o", "s", "t">>}>>,
    <<<<"F", "r", "e", "e", "m", "i", "u", "m">>,
      {<<"f", "r", "e", "e", "m", "i", "u", "m">>,
       <<"f", "r", "e", "e", " ", "t", "i", "e", "r">>,
       <<"l", "i", "m", "i", "t", "e", "d", " ", "f", "r", "e", "e">>}>>,
    <<<<"P", "a", "i", "d">>,
      {<<"p", "a", "i", "d">>,
       <<"s", "u", "b", "s", "c", "r", "i", "p", "t", "i", "o", "n">>,
       <<"p", "r", "e", "m", "i", "u", "m">>,
       <<"c", "o", "s", "t">>,
       <<"p", "r", "i", "c", "e">>}>>
>>

stop_words ==
    {<<"f", "o", "r">>,
     <<"t", "h", "e">>,
     <<"a", "n", "d">>,
     <<"o", "r">>,
     <<"b", "u", "t">>,
     <<"i", "n">>,
     <<"o", "n">>,
     <<"a", "t">>,
     <<"t", "o">>,
     <<"i", "s">>,
     <<"a", "r", "e">>,
     <<"w", "a", "s">>,
     <<"w", "e", "r", "e">>,
     <<"a">>,
     <<"a", "n">>,
     <<"t", "h", "a", "t">>,
     <<"t", "h", "i", "s">>,
     <<"w", "i", "t", "h">>,
     <<"i">>,
     <<"m", "e">>,
     <<"m", "y">>,
     <<"w", "e">>,
     <<"o", "u", "r">>,
     <<"y", "o", "u">>,
     <<"y", "o", "u", "r">>}

\* [label for label, keywords in table.items() if any(keyword in query_lower ...)]
MatchedLabels(table, query_lower) ==
    LET hits == SelectSeq(table, LAMBDA row : \E keyword \in row[2] :
                                                  Contains(keyword, query_lower))
    IN  [n \in 1..Len(hits) |-> hits[n][1]]

RECURSIVE WordPrefix(_)
WordPrefix(s) ==
    IF s # <<>> /\ IsWordChar(Head(s)) THEN <<Head(s)>> \o WordPrefix(Tail(s)) ELSE <<>>

\* re.findall(r'\w+', s)
RECURSIVE Words(_)
Words(s) ==
    IF s = <<>> THEN <<>>
    ELSE IF ~IsWordChar(Head(s)) THEN Words(Tail(s))
    ELSE LET w == WordPrefix(s)
         IN  <<w>> \o Words(SubSeq(s, Len(w) + 1, Len(s)))

extract_intent(query) ==
    LET query_lower == Lower(query)
    IN  [domains |-> MatchedLabels(domain_keywords, query_lower),
         platforms |-> MatchedLabels(platform_keywords, query_lower),
         pricing |-> MatchedLabels(pricing_keywords, query_lower),
         keywords |-> SelectSeq(Words(query_lower),
                                LAMBDA word : word \notin stop_words /\ Len(word) > 2)]

\* number of positions of a sequence that satisfy a test, for `for x in xs: if ...: score += w`
CountIf(xs, Test(_)) == Cardinality({n \in 1..Len(xs) : Test(xs[n])})

\* the f-string agent_text
agent_text(agent) ==
    Concat(<<agent.name, <<" ">>, agent.short_desc, <<" ">>, agent.long_desc, <<" ">>,
             agent.domains, <<" ">>, agent.use_cases, <<" ">>, agent.creator>>)

ScoreCap == 1000
DefaultThreshold == 100

\* fuzz.partial_ratio(query.lower(), agent_text.lower()) / 100.0 * 0.4
fuzzy_part(agent, query) == fuzz_partial_ratio(Lower(query), Lower(agent_text(agent))) * 4

\* `for domain in intent['domains']: if any(...): score += 0.3`
domain_part(agent, intent) ==
    300 * CountIf(intent.domains, LAMBDA domain :
              \E n \in 1..Len(agent.domain_list) :
                  fuzz_ratio(Lower(domain), Lower(agent.domain_list[n])) > 80)

\* `for platform in intent['platforms']: if any(...): score += 0.2`
platform_part(agent, intent) ==
    200 * CountIf(intent.platforms, LAMBDA platform :
              \E n \in 1..Len(agent.platform_list) :
                  fuzz_ratio(Lower(platform), Lower(agent.platform_list[n])) > 80)

\* `for pricing in intent['pricing']: if fuzz.ratio(...) > 80: score += 0.1`
pricing_part(agent, intent) ==
    100 * CountIf(intent.pricing, LAMBDA pricing :
              fuzz_ratio(Lower(pricing), Lower(agent.pricing_clean)) > 80)

\* the keywords found in the name, the short and the long description
keyword_part(agent, intent) ==
    300 * CountIf(intent.keywords, LAMBDA keyword : Contains(keyword, Lower(agent.name)))
    + 200 * CountIf(intent.keywords,
                    LAMBDA keyword : Contains(keyword, Lower(agent.short_desc)))
    + 100 * CountIf(intent.keywords,
                    LAMBDA keyword : Contains(keyword, Lower(agent.long_desc)))

\* `if any(keyword in agent.creator.lower() for keyword in ...): score += 0.15`
creator_part(agent, intent) ==
    IF \E n \in 1..Len(intent.keywords) : Contains(intent.keywords[n], Lower(agent.creator))
    THEN 150 ELSE 0

\* `for keyword in ...: for use_case in agent_use_cases: if ...: score += 0.1`
use_case_part(agent, intent) ==
    100 * Sum([n \in 1..Len(intent.keywords) |->
              CountIf(agent.use_case_list, LAMBDA use_case :
                  fuzz_partial_ratio(intent.keywords[n], Lower(use_case)) > 70)])

\* the amounts added to the score, one for each section of the function
score_parts(agent, query, intent) ==
    [fuzzy |-> fuzzy_part(agent, query),
     domain |-> domain_part(agent, intent),
     platform |-> platform_part(agent, intent),
     pricing |-> pricing_part(agent, intent),
     keyword |-> keyword_part(agent, intent),
     creator |-> creator_part(agent, intent),
     use_case |-> use_case_part(agent, intent)]

\* score before `min(score, 1.0)`
sum_of_parts(parts) ==
    parts.fuzzy + parts.domain + parts.platform + parts.pricing
        + parts.keyword + parts.creator + parts.use_case

raw_relevance_score(agent, query, intent) == sum_of_parts(score_parts(agent, query, intent))

capped_Uncapped(score) == score

\* min(score, 1.0)
capped(score) == IF score < ScoreCap THEN score ELSE ScoreCap

calculate_relevance_score(agent, query, intent) ==
    capped(raw_relevance_score(agent, query, intent))

EmptyQuery_NoStrip(query) == query = <<>>

\* `if not query or not query.strip()`
EmptyQuery(query) == query = <<>> \/ Strip(query) = <<>>

\* IntelligentSearch.search
search(entries, query_in, threshold) ==
    IF EmptyQuery(query_in) THEN entries
    ELSE LET query == Strip(query_in)
             intent == extract_intent(query)
             scored == [n \in 1..Len(entries) |->
                          <<(<<calculate_relevance_score(entries[n], query, intent)>>),
                            entries[n]>>]
             kept == SelectSeq(scored, LAMBDA pair : pair[1][1] >= threshold)
         IN  Items(SortDesc(kept))

----------------------------------------------------------------------------
(* data_loader.py *)

\* filters: a value of <<>> stands for a key that is absent or empty, which
\* `filters.get(key)` treats alike
NoFilters ==
    [domain |-> <<>>, use_case |-> <<>>, platform |-> <<>>, pricing |-> <<>>,
     model |-> <<>>, creator |-> <<>>]

Member_Loose(x, list) == \E n \in 1..Len(list) : Contains(Lower(x), Lower(list[n]))

Member(x, list) == \E n \in 1..Len(list) : list[n] = x

\* `if value: filtered = [agent for agent in filtered if keep(agent)]`
filter_if(value, list, Keep(_)) ==
    IF value # <<>> THEN SelectSeq(list, Keep) ELSE list

search_if_Unranked(catalog, query) == catalog

search_if_BestOnly(catalog, query) ==
    IF query # <<>> THEN Take(search(catalog, query, DefaultThreshold), 1) ELSE catalog

\* `if query: filtered = self.intelligent_search.search(filtered, query)`
search_if(catalog, query) ==
    IF query # <<>> THEN search(catalog, query, DefaultThreshold) ELSE catalog

\* DataLoader.search_agents: the search, then the filters on domain, use
\* case, platform, model and creator, in the order of the code
search_agents(catalog, query, filters) ==
    filter_if(filters.creator,
      filter_if(filters.model,
        filter_if(filters.platform,
          filter_if(filters.use_case,
            filter_if(filters.domain,
              search_if(catalog, query),
              LAMBDA agent : Member(filters.domain, agent.domain_list)),
            LAMBDA agent : Member(filters.use_case, agent.use_case_list)),
          LAMBDA agent : Member(filters.platform, agent.platform_list)),
        LAMBDA agent : Contains(Lower(filters.model), Lower(agent.underlying_model))),
      LAMBDA agent : Contains(Lower(filters.creator), Lower(agent.creator)))

\* the characters of the model in the order of their code points
CodePoints ==
    <<"\t", "\n", " ", "!", "$", "-", ".", "/">> \o Digits \o <<":", ";">>
        \o UpperCase \o <<"_">> \o LowerCase

Ord(ch) == CHOOSE k \in 1..Len(CodePoints) : CodePoints[k] = ch

\* a < b for two strings, as Python compares them
RECURSIVE StrLess(_, _)
StrLess(a, b) ==
    IF b = <<>> THEN FALSE
    ELSE IF a = <<>> THEN TRUE
    ELSE IF Head(a) # Head(b) THEN Ord(Head(a)) < Ord(Head(b))
    ELSE StrLess(Tail(a), Tail(b))

\* the least string of a set that is not empty
LeastOf(values) == CHOOSE x \in values : \A y \in values : x = y \/ StrLess(x, y)

\* sorted(list(values)) for a set of strings
RECURSIVE SortedList(_)
first_then_rest(least, values) == <<least>> \o SortedList(values \ {least})

SortedList(values) ==
    IF values = {} THEN <<>> ELSE first_then_rest(LeastOf(values), values)

\* the dictionary {} that get_filter_options returns for an empty catalog
EmptyDict == [key \in {} |-> <<>>]

\* the field, stripped, of the catalog entries where that is not empty
StrippedValues(catalog, Field(_)) ==
    {Strip(Field(catalog[n])) : n \in 1..Len(catalog)} \ {<<>>}

\* the tokens of the catalog entries in one of their lists
AllTokens(catalog, List(_)) == UNION {Range(List(catalog[n])) : n \in 1..Len(catalog)}

\* DataLoader.get_filter_options
get_filter_options(catalog) ==
    IF catalog = <<>> THEN EmptyDict
    ELSE [domains |-> SortedList(AllTokens(catalog, LAMBDA agent : agent.domain_list)),
          use_cases |-> SortedList(AllTokens(catalog, LAMBDA agent : agent.use_case_list)),
          platforms |-> SortedList(AllTokens(catalog, LAMBDA agent : agent.platform_list)),
          pricing |-> SortedList({catalog[n].pricing_clean : n \in 1..Len(catalog)}),
          models |-> SortedList(StrippedValues(catalog, LAMBDA agent : agent.underlying_model)),
          creators |-> SortedList(StrippedValues(catalog, LAMBDA agent : agent.creator))]

\* the Agent objects _load_data appends for the rows of the CSV file
load_agents(rows) == [n \in 1..Len(rows) |-> Agent(rows[n])]

\* a file that is not there; a file that is there holds rows (records) when it
\* parses, and makes read_csv (json.load) raise when it does not
NoFile == [exists |-> FALSE, parses |-> FALSE, rows |-> <<>>]

\* agent_data.get(key, default) for a record of user_agents.json: a record is
\* the set of its keys and their values
record_get(record, key, default) ==
    IF key \in record.keys THEN record.values[key] ELSE default

\* the arguments of Agent(...) in _load_user_agents
user_row(record) ==
    [name |-> record.values.name,
     domains |-> record_get(record, "domains", <<>>),
     use_cases |-> record_get(record, "use_cases", <<>>),
     short_desc |-> record.values.short_desc,
     long_desc |-> record_get(record, "long_desc", <<>>),
     creator |-> record_get(record, "creator", <<"U", "s", "e", "r", " ", "S", "u", "b", "m", "i", "t", "t", "e", "d">>),
     url |-> record_get(record, "url", <<>>),
     platform |-> record_get(record, "platform", <<"W", "e", "b">>),
     pricing |-> record_get(record, "pricing", <<"U", "n", "k", "n", "o", "w", "n">>),
     underlying_model |-> record_get(record, "underlying_model", <<>>)]

is_approved_WithStatus(record) == "status" \in record.keys

\* agent_data.get('status') == 'approved'
is_approved(record) == "status" \in record.keys /\ record.values.status = "approved"

\* agent_data['name'] and agent_data['short_desc'] raise KeyError without the key
raises_KeyError(record) == ~({"name", "short_desc"} \subseteq record.keys)

\* the loop of _load_user_agents: the exception of a record leaves the loop
\* for the handler at the end of the method
RECURSIVE load_user_records(_)
load_user_records(records) ==
    IF records = <<>> THEN <<>>
    ELSE IF ~is_approved(Head(records)) THEN load_user_records(Tail(records))
    ELSE IF raises_KeyError(Head(records)) THEN <<>>
    ELSE <<Agent(user_row(Head(records)))>> \o load_user_records(Tail(records))

\* DataLoader._load_user_agents: the agents it appends
_load_user_agents(user_file) ==
    IF ~user_file.exists \/ ~user_file.parses THEN <<>>
    ELSE load_user_records(user_file.rows)

\* DataLoader._load_data: self.agents after the constructor
_load_data(csv_file, user_file) ==
    IF ~csv_file.exists \/ ~csv_file.parses THEN <<>>
    ELSE load_agents(csv_file.rows) \o _load_user_agents(user_file)

\* the submission dict add_user_agent builds from the form data
submission(agent_data, existing, now) ==
    [keys |-> {"id", "name", "domains", "use_cases", "short_desc", "long_desc", "creator",
               "url", "platform", "pricing", "underlying_model", "deployment",
               "legitimacy", "status", "submitted_date", "reviewed"},
     values |->
        [id |-> <<now, Len(existing) + 1>>,
         name |-> agent_data.values.name,
         domains |-> record_get(agent_data, "domains", <<>>),
         use_cases |-> record_get(agent_data, "use_cases", <<>>),
         short_desc |-> agent_data.values.short_desc,
         long_desc |-> record_get(agent_data, "long_desc", <<>>),
         creator |-> record_get(agent_data, "creator", <<"U", "s", "e", "r", " ", "S", "u", "b", "m", "i", "t", "t", "e", "d">>),
         url |-> record_get(agent_data, "url", <<>>),
         platform |-> record_get(agent_data, "platform", <<"W", "e", "b">>),
         pricing |-> record_get(agent_data, "pricing", <<"U", "n", "k", "n", "o", "w", "n">>),
         underlying_model |-> record_get(agent_data, "underlying_model", <<>>),
         deployment |-> record_get(agent_data, "deployment", <<>>),
         legitimacy |-> <<"U", "s", "e", "r", " ", "S", "u", "b", "m", "i", "t", "t", "e", "d">>,
         status |-> "pending_review",
         submitted_date |-> now,
         reviewed |-> FALSE]]

\* the submissions add_user_agent reads before it appends its own
existing_submissions(user_file) == IF user_file.exists THEN user_file.rows ELSE <<>>

\* DataLoader.add_user_agent: the file it leaves and the value it returns;
\* json.load of a file that does not parse, agent_data['name'] of data
\* without the key and open(..., 'w') of a file that cannot be written
\* raise, and the handler returns False
add_user_agent(user_file, agent_data, canWrite, now) ==
    IF \/ user_file.exists /\ ~user_file.parses
       \/ raises_KeyError(agent_data)
       \/ ~canWrite
    THEN [file |-> user_file, ok |-> FALSE]
    ELSE [file |-> [exists |-> TRUE, parses |-> TRUE,
                    rows |-> Append(existing_submissions(user_file),
                                    submission(agent_data, existing_submissions(user_file),
                                               now))],
          ok |-> TRUE]

\* `for agent in self.agents: if agent.slug == slug: return agent`: the
\* agent returned, as a list of one, or <<>> when the loop ends without one
RECURSIVE first_with_slug(_, _)
first_with_slug(catalog, slug) ==
    IF catalog = <<>> THEN <<>>
    ELSE IF Head(catalog).slug = slug THEN <<Head(catalog)>>
    ELSE first_with_slug(Tail(catalog), slug)

get_agent_by_slug_ReturnsNone(catalog, slug) ==
    [raised |-> "", agent |-> first_with_slug(catalog, slug)]

\* DataLoader.get_agent_by_slug: the agent, or the ValueError raised after the loop
get_agent_by_slug(catalog, slug) ==
    LET found == first_with_slug(catalog, slug)
    IN  [raised |-> IF found = <<>> THEN "ValueError" ELSE "", agent |-> found]

----------------------------------------------------------------------------
(* routes.py *)

\* RatingSystem.add_rating on the list and the file of one instance: the
\* list and the file it leaves and the value it returns
add_rating(list, f, canWrite, slug, rating, feedback, user, now) ==
    IF ~ValidRating(rating) THEN [ratings |-> list, file |-> f, ok |-> FALSE]
    ELSE [ratings |-> append_rating(list, rating_entry(slug, rating, feedback, user, now)),
          file |-> _save_ratings(f, append_rating(list, rating_entry(slug, rating, feedback,
                                                                    user, now)), canWrite),
          ok |-> add_rating_result(canWrite)]

\* `not agent_slug or not rating or not (1 <= rating <= 5)`, where rating,
\* the value of request.form.get('rating', type=int), is <<>> for the None of
\* a field that is missing or no integer, and <<n>> for the integer n
invalid_rating(agent_slug, rating) ==
    \/ agent_slug = <<>>
    \/ rating = <<>> \/ rating[1] = 0
    \/ ~(1 <= rating[1] /\ rating[1] <= 5)

\* the redirect of rate_agent after add_rating has returned
rated(outcome) ==
    [ratings |-> outcome.ratings, file |-> outcome.file,
     response |-> IF outcome.ok THEN "rating_success" ELSE "rating_failed"]

rate_agent_NoLookup(catalog, list, f, canWrite, agent_slug, rating, feedback, remote_addr, now) ==
    IF invalid_rating(agent_slug, rating)
    THEN [ratings |-> list, file |-> f, response |-> "invalid_rating"]
    ELSE rated(add_rating(list, f, canWrite, agent_slug, rating[1], feedback,
                          IF remote_addr # <<>> THEN remote_addr ELSE Anonymous, now))

\* rate_agent: the list and the file it leaves, and the redirect it answers with
rate_agent(catalog, list, f, canWrite, agent_slug, rating, feedback, remote_addr, now) ==
    IF invalid_rating(agent_slug, rating)
    THEN [ratings |-> list, file |-> f, response |-> "invalid_rating"]
    ELSE IF get_agent_by_slug(catalog, agent_slug).raised = "ValueError"
    THEN [ratings |-> list, file |-> f, response |-> "agent_not_found"]
    ELSE rated(add_rating(list, f, canWrite, agent_slug, rating[1], feedback,
                          IF remote_addr # <<>> THEN remote_addr ELSE Anonymous, now))

\* the related agents of agent_detail: same primary domain or use case, at most six
related_agents(catalog, agent, slug) ==
    Take(SelectSeq(catalog, LAMBDA a :
             /\ a.slug # slug
             /\ \/ a.primary_domain = agent.primary_domain
                \/ a.primary_use_case = agent.primary_use_case), 6)

\* agent_detail: the status of the response.  The ValueError of
\* get_agent_by_slug is not caught in the view, so the request ends in the
\* handler of error 500; `if not agent: abort(404)` is reached only by a
\* lookup that returned
agent_detail(lookup) ==
    IF lookup.raised # "" THEN "500"
    ELSE IF lookup.agent = <<>> THEN "404"
    ELSE "200"

----------------------------------------------------------------------------
(* State machine of the rating store *)

NoSummary == get_agent_ratings(<<>>, Blank)

\* no amount added to a score
NoParts ==
    [fuzzy |-> 0, domain |-> 0, platform |-> 0, pricing |-> 0, keyword |-> 0,
     creator |-> 0, use_case |-> 0]

\* no scrape_with_retry call is running and none has returned
NoScrape ==
    [pc |-> "idle", max_retries |-> 0, attempt |-> 0, outcomes |-> <<>>, returned |-> <<>>]

NoCall ==
    [op |-> "none", inst |-> "", slug |-> Blank, rating |-> 0,
     min_ratings |-> 0, limit |-> 0, ok |-> FALSE,
     query |-> Blank, threshold |-> 0, filters |-> NoFilters,
     summary |-> NoSummary, items |-> <<>>, total |-> 0, options |-> EmptyDict,
     text |-> Blank, result |-> Blank, reapplied |-> FALSE,
     csv |-> NoFile, user_agents |-> NoFile,
     raised |-> "", response |-> "", parts |-> NoParts]

Init ==
    /\ ratings = [i \in Instances |-> <<>>]
    /\ alive = {}
    /\ file = [exists |-> FALSE, data |-> <<>>]
    /\ writable = TRUE
    /\ pc = [c \in Callers |-> "idle"]
    /\ pos = [c \in Callers |-> 0]
    /\ agents = <<>>
    /\ user_agents_file = NoFile
    /\ scrape = NoScrape
    /\ last = NoCall

\* RatingSystem.__init__: a process opens the store and loads the file
Construct(i) ==
    /\ i \notin alive
    /\ alive' = alive \cup {i}
    /\ ratings' = [ratings EXCEPT ![i] = _load_ratings(file)]
    /\ last' = [NoCall EXCEPT !.op = "construct", !.inst = i]
    /\ UNCHANGED <<file, writable, pc, pos, agents, user_agents_file, scrape>>

\* The environment makes the ratings file unwritable, or writable again
SetWritable(b) ==
    /\ writable # b
    /\ writable' = b
    /\ UNCHANGED <<ratings, alive, file, pc, pos, last, agents, user_agents_file, scrape>>

AddReturn(i, slug, rating, ok) ==
    [NoCall EXCEPT !.op = "add_rating", !.inst = i, !.slug = slug,
                   !.rating = rating, !.ok = ok]

\* add_rating, run from call to return with no other caller in between
AddRating(i, slug, rating, feedback, user, now, maxLen) ==
    /\ i \in alive
    /\ \A c \in Callers : pc[c] = "idle"
    /\ Len(ratings[i]) < maxLen
    /\ IF ~ValidRating(rating)
       THEN /\ last' = AddReturn(i, slug, rating, FALSE)
            /\ UNCHANGED <<ratings, alive, file, writable, pc, pos, agents, user_agents_file, scrape>>
       ELSE LET list == append_rating(ratings[i],
                                      rating_entry(slug, rating, feedback, user, now))
            IN  /\ ratings' = [ratings EXCEPT ![i] = list]
                /\ file' = _save_ratings(file, list, writable)
                /\ last' = AddReturn(i, slug, rating, add_rating_result(writable))
                /\ UNCHANGED <<alive, writable, pc, pos, agents, user_agents_file, scrape>>

\* One caller's add_rating up to and including self.ratings.append(rating_entry);
\* an invalid rating returns False at once.
AddRatingCall(c, slug, rating, feedback, user, now, maxLen) ==
    LET i == instOf(c) IN
    /\ pc[c] = "idle"
    /\ i \in alive
    /\ Len(ratings[i]) < maxLen
    /\ IF ~ValidRating(rating)
       THEN /\ last' = AddReturn(i, slug, rating, FALSE)
            /\ UNCHANGED <<ratings, alive, file, writable, pc, pos, agents, user_agents_file, scrape>>
       ELSE /\ ratings' = [ratings EXCEPT
                  ![i] = append_rating(@, rating_entry(slug, rating, feedback, user, now))]
            /\ pc' = [pc EXCEPT ![c] = "save"]
            /\ pos' = [pos EXCEPT ![c] = Len(ratings'[i])]
            /\ UNCHANGED <<alive, file, writable, last, agents, user_agents_file, scrape>>

\* The same caller's add_rating from self._save_ratings() to `return True`
AddRatingSave(c) ==
    LET i == instOf(c)
        e == ratings[i][pos[c]] IN
    /\ pc[c] = "save"
    /\ file' = _save_ratings(file, ratings[i], writable)
    /\ pc' = [pc EXCEPT ![c] = "idle"]
    /\ pos' = [pos EXCEPT ![c] = 0]
    /\ last' = [AddReturn(i, e.agent_slug, e.rating, add_rating_result(writable))
                   EXCEPT !.items = <<e>>]
    /\ UNCHANGED <<ratings, alive, writable, agents, user_agents_file, scrape>>

GetAgentRatings(i, slug) ==
    /\ i \in alive
    /\ last' = [NoCall EXCEPT !.op = "get_agent_ratings", !.inst = i, !.slug = slug,
                              !.summary = get_agent_ratings(ratings[i], slug)]
    /\ UNCHANGED <<ratings, alive, file, writable, pc, pos, agents, user_agents_file, scrape>>

GetTopRatedAgents(i, min_ratings, limit) ==
    /\ i \in alive
    /\ last' = [NoCall EXCEPT !.op = "get_top_rated_agents", !.inst = i,
                              !.min_ratings = min_ratings, !.limit = limit,
                              !.items = get_top_rated_agents(ratings[i], min_ratings, limit)]
    /\ UNCHANGED <<ratings, alive, file, writable, pc, pos, agents, user_agents_file, scrape>>

GetRecentReviews(i, limit) ==
    /\ i \in alive
    /\ last' = [NoCall EXCEPT !.op = "get_recent_reviews", !.inst = i, !.limit = limit,
                              !.items = get_recent_reviews(ratings[i], limit)]
    /\ UNCHANGED <<ratings, alive, file, writable, pc, pos, agents, user_agents_file, scrape>>

----------------------------------------------------------------------------
(* Spec: one logical sequence of calls on the rating store, each call run   *)
(* to completion before the next, the store failing and recovering at will *)

StoreInstances == {"i1"}
StoreRatings == {0, 2, 5, 6}
StoreFeedbacks == {Blank, <<" ">>, Good}
StoreTimes == {1, 2}

Next ==
    \/ \E i \in StoreInstances : Construct(i)
    \/ \E b \in BOOLEAN : SetWritable(b)
    \/ \E i \in StoreInstances, slug \in Slugs, rating \in StoreRatings,
          fb \in StoreFeedbacks, now \in StoreTimes :
            AddRating(i, slug, rating, fb, Blank, now, MaxRatings)
    \/ \E i \in StoreInstances, slug \in Slugs : GetAgentRatings(i, slug)
    \/ \E i \in StoreInstances : GetTopRatedAgents(i, 1, 1)
    \/ \E i \in StoreInstances : GetRecentReviews(i, 1)

Spec == Init /\ [][Next]_vars

----------------------------------------------------------------------------
(* SpecConc: add_rating calls of several callers interleave step by step    *)

NextConc ==
    \/ \E i \in Instances : Construct(i)
    \/ \E c \in Callers, slug \in Slugs, user \in Users :
            AddRatingCall(c, slug, 5, Good, user, 1, MaxConcRatings)
    \/ \E c \in Callers : AddRatingSave(c)

SpecConc == Init /\ [][NextConc]_vars

----------------------------------------------------------------------------
(* SpecAgg: get_agent_ratings over the rating lists one store can build     *)
(* from scores 1..5 of one slug and a rating of another slug               *)

AggInputs == {<<SlugX, r>> : r \in 1..5} \cup {<<SlugY, 1>>}

NextAgg ==
    \/ Construct("i1")
    \/ \E in \in AggInputs :
            AddRating("i1", in[1], in[2], Good, Blank, 1, MaxAggRatings)
    \/ \E slug \in Slugs : GetAgentRatings("i1", slug)

SpecAgg == Init /\ [][NextAgg]_vars

----------------------------------------------------------------------------
(* SpecReviews: get_agent_ratings over lists that mix timestamps, ratings   *)
(* without feedback and ratings of another slug                            *)

ReviewInputs ==
    {<<SlugX, Good, t>> : t \in 1..3} \cup {<<SlugX, <<" ">>, 3>>, <<SlugY, Good, 3>>}

NextReviews ==
    \/ Construct("i1")
    \/ \E in \in ReviewInputs :
            AddRating("i1", in[1], 4, in[2], Blank, in[3], MaxReviewRatings)
    \/ \E slug \in Slugs : GetAgentRatings("i1", slug)

SpecReviews == Init /\ [][NextReviews]_vars

----------------------------------------------------------------------------
(* SpecTop: get_top_rated_agents over lists rating three slugs              *)

TopSlugs == {SlugX, SlugY, SlugZ}
TopRatings == {3, 5}

NextTop ==
    \/ Construct("i1")
    \/ \E slug \in TopSlugs, rating \in TopRatings :
            AddRating("i1", slug, rating, Blank, Blank, 1, MaxTopRatings)
    \/ \E m \in 1..2, l \in 0..MaxLimit : GetTopRatedAgents("i1", m, l)

SpecTop == Init /\ [][NextTop]_vars

----------------------------------------------------------------------------
(* SpecSearch: searches of a catalog loaded at start-up *)

RowChatGPT ==
    [name |-> <<"C", "h", "a", "t", "G", "P", "T">>,
     domains |-> <<"W", "r", "i", "t", "i", "n", "g", ";", "R", "e", "s", "e", "a", "r", "c", "h">>,
     use_cases |-> <<"D", "r", "a", "f", "t", "i", "n", "g">>,
     short_desc |-> <<"A", "I", " ", "c", "h", "a", "t">>,
     long_desc |-> <<>>,
     creator |-> <<"O", "p", "e", "n", "A", "I">>,
     url |-> <<"c", "h", "a", "t", ".", "o", "p", "e", "n", "a", "i", ".", "c", "o", "m">>,
     platform |-> <<"W", "e", "b", ";", "i", "O", "S">>,
     pricing |-> <<"F", "r", "e", "e", "m", "i", "u", "m">>,
     underlying_model |-> <<"G", "P", "T", "-", "4">>]

RowMidjourney ==
    [name |-> <<"M", "i", "d", "j", "o", "u", "r", "n", "e", "y">>,
     domains |-> <<"I", "m", "a", "g", "e", " ", "G", "e", "n", "e", "r", "a", "t", "i", "o", "n">>,
     use_cases |-> <<"A", "r", "t">>,
     short_desc |-> <<"I", "m", "a", "g", "e", " ", "t", "o", "o", "l">>,
     long_desc |-> <<>>,
     creator |-> <<"M", "i", "d", "j", "o", "u", "r", "n", "e", "y">>,
     url |-> <<"h", "t", "t", "p", "s", ":", "/", "/", "m", "i", "d", "j", "o", "u", "r", "n", "e", "y", ".", "c", "o", "m">>,
     platform |-> <<"W", "e", "b">>,
     pricing |-> <<"P", "a", "i", "d", " ", "p", "l", "a", "n">>,
     underlying_model |-> <<>>]

RowCopilot ==
    [name |-> <<"G", "i", "t", "H", "u", "b", " ", "C", "o", "p", "i", "l", "o", "t">>,
     domains |-> <<"S", "o", "f", "t", "w", "a", "r", "e", " ", "D", "e", "v", "e", "l", "o", "p", "m", "e", "n", "t", ";", " ", "W", "r", "i", "t", "i", "n", "g">>,
     use_cases |-> <<"C", "o", "d", "e", " ", "r", "e", "v", "i", "e", "w">>,
     short_desc |-> <<"C", "o", "d", "e", " ", "i", "n", " ", "y", "o", "u", "r", " ", "I", "D", "E">>,
     long_desc |-> <<"F", "r", "e", "e", " ", "f", "o", "r", " ", "s", "t", "u", "d", "e", "n", "t", "s">>,
     creator |-> <<"G", "i", "t", "H", "u", "b">>,
     url |-> <<>>,
     platform |-> <<"V", "S", " ", "C", "o", "d", "e", " ", "E", "x", "t", "e", "n", "s", "i", "o", "n">>,
     pricing |-> <<"$", "1", "0">>,
     underlying_model |-> <<"g", "p", "t", "-", "4">>]

RowEmpty ==
    [name |-> <<>>,
     domains |-> <<>>,
     use_cases |-> <<>>,
     short_desc |-> <<>>,
     long_desc |-> <<>>,
     creator |-> <<>>,
     url |-> <<>>,
     platform |-> <<>>,
     pricing |-> <<>>,
     underlying_model |-> <<>>]

Rows == {RowChatGPT, RowMidjourney, RowCopilot, RowEmpty}

\* the row sequences of at most MaxCatalog rows
RECURSIVE RowSeqs(_)
RowSeqs(n) ==
    IF n = 0 THEN {<<>>}
    ELSE RowSeqs(n - 1)
         \cup {Append(rows, row) : rows \in {r \in RowSeqs(n - 1) : Len(r) = n - 1},
                                    row \in Rows}

Queries ==
    {Blank, <<" ">>, <<" ", "\t", " ">>,
     <<"f", "r", "e", "e", " ", "w", "r", "i", "t", "i", "n", "g", " ", "t", "o", "o", "l">>,
     <<" ", "c", "o", "d", "e", " ">>,
     <<"z", "z", "z">>,
     <<"w", "e", "b">>}

\* the default threshold of search, and a higher one
Thresholds == {DefaultThreshold, 350}

\* one value for each of the five criteria search_agents tests
AllFilters ==
    [NoFilters EXCEPT !.domain = <<"W", "r", "i", "t", "i", "n", "g">>, !.use_case = <<"D", "r", "a", "f", "t", "i", "n", "g">>, !.platform = <<"W", "e", "b">>,
                      !.model = <<"g", "p", "t">>, !.creator = <<"O", "P", "E", "N">>]

FilterSets ==
    {NoFilters,
     [NoFilters EXCEPT !.domain = <<"W", "r", "i", "t", "i", "n", "g">>],
     [NoFilters EXCEPT !.creator = <<"g", "i", "t", "h", "u", "b">>, !.pricing = PricingFree],
     [NoFilters EXCEPT !.pricing = PricingFree],
     [NoFilters EXCEPT !.domain = <<"w", "r", "i", "t", "i", "n", "g">>],
     AllFilters}

InitSearch ==
    /\ ratings = [i \in Instances |-> <<>>]
    /\ alive = {}
    /\ file = [exists |-> FALSE, data |-> <<>>]
    /\ writable = TRUE
    /\ pc = [c \in Callers |-> "idle"]
    /\ pos = [c \in Callers |-> 0]
    /\ agents \in {load_agents(rows) : rows \in RowSeqs(MaxCatalog)}
    /\ user_agents_file = NoFile
    /\ scrape = NoScrape
    /\ last = NoCall

\* IntelligentSearch.search(agents, query, threshold)
Search(query, threshold) ==
    /\ last' = [NoCall EXCEPT !.op = "search", !.query = query,
                              !.threshold = threshold,
                              !.items = search(agents, query, threshold)]
    /\ UNCHANGED <<ratings, alive, file, writable, pc, pos, agents, user_agents_file, scrape>>

\* DataLoader.search_agents(query, filters)
SearchAgents(query, filters) ==
    /\ last' = [NoCall EXCEPT !.op = "search_agents", !.query = query,
                              !.filters = filters,
                              !.items = search_agents(agents, query, filters)]
    /\ UNCHANGED <<ratings, alive, file, writable, pc, pos, agents, user_agents_file, scrape>>

\* the dictionary api_search puts in its JSON answer for an agent
api_result(agent) ==
    [name |-> agent.name,
     slug |-> agent.slug,
     short_desc |-> agent.short_desc,
     domains |-> agent.domain_list,
     use_cases |-> agent.use_case_list,
     pricing |-> agent.pricing_clean,
     creator |-> agent.creator,
     url |-> agent.url]

\* the agents api_search finds for the request arguments q and filters
api_agents(q, filters) == search_agents(agents, Strip(q), filters)

\* jsonify({'agents': results, 'total': len(results)})
api_response(q, filters, found) ==
    [NoCall EXCEPT !.op = "api_search", !.query = q, !.filters = filters,
                   !.items = [n \in 1..Len(found) |-> api_result(found[n])],
                   !.total = Len(found)]

\* GET /api/search?q=...&domain=...&pricing=...
ApiSearch(q, filters) ==
    /\ last' = api_response(q, filters, api_agents(q, filters))
    /\ UNCHANGED <<ratings, alive, file, writable, pc, pos, agents, user_agents_file, scrape>>

\* DataLoader.get_filter_options()
GetFilterOptions ==
    /\ last' = [NoCall EXCEPT !.op = "get_filter_options",
                              !.options = get_filter_options(agents)]
    /\ UNCHANGED <<ratings, alive, file, writable, pc, pos, agents, user_agents_file, scrape>>

\* the caller takes the result list: the next request starts afresh
SearchReturn ==
    /\ last.op \in {"search", "search_agents", "api_search", "get_filter_options"}
    /\ last' = NoCall
    /\ UNCHANGED <<ratings, alive, file, writable, pc, pos, agents, user_agents_file, scrape>>

\* one request at a time, as the routes make them
NextSearch ==
    \/ \E query \in Queries, threshold \in Thresholds :
            last = NoCall /\ Search(query, threshold)
    \/ \E query \in Queries, filters \in FilterSets :
            last = NoCall /\ SearchAgents(query, filters)
    \/ \E q \in Queries, filters \in FilterSets :
            last = NoCall /\ ApiSearch(q, filters)
    \/ last = NoCall /\ GetFilterOptions
    \/ SearchReturn

SpecSearch == InitSearch /\ [][NextSearch]_vars

----------------------------------------------------------------------------
(* SpecScore: calculate_relevance_score on the entries of a catalog, as     *)
(* search calls it for a query, and the search itself                      *)

RowCodeWriter ==
    [name |-> <<"C", "o", "d", "e", " ", "W", "r", "i", "t", "e", "r">>,
     domains |-> <<"S", "o", "f", "t", "w", "a", "r", "e", " ", "D", "e", "v", "e", "l", "o", "p", "m", "e", "n", "t", ";", "W", "r", "i", "t", "i", "n", "g">>,
     use_cases |-> <<"C", "o", "d", "e", " ", "r", "e", "v", "i", "e", "w", ";", "C", "o", "d", "e", " ", "g", "e", "n", "e", "r", "a", "t", "i", "o", "n">>,
     short_desc |-> <<"F", "r", "e", "e", " ", "c", "o", "d", "e", " ", "t", "o", "o", "l">>,
     long_desc |-> <<"C", "o", "d", "e">>,
     creator |-> <<"C", "o", "d", "e", " ", "I", "n", "c">>,
     url |-> <<>>,
     platform |-> <<"W", "e", "b", ";", "A", "P", "I">>,
     pricing |-> <<"F", "r", "e", "e">>,
     underlying_model |-> <<>>]

RowScenarioChatGPT ==
    [name |-> <<"C", "h", "a", "t", "G", "P", "T">>,
     domains |-> <<"W", "r", "i", "t", "i", "n", "g", ";", "R", "e", "s", "e", "a", "r", "c", "h">>,
     use_cases |-> <<>>,
     short_desc |-> <<>>,
     long_desc |-> <<>>,
     creator |-> <<>>,
     url |-> <<>>,
     platform |-> <<>>,
     pricing |-> <<"F", "r", "e", "e", "m", "i", "u", "m">>,
     underlying_model |-> <<>>]

RowScenarioMidjourney ==
    [name |-> <<"M", "i", "d", "j", "o", "u", "r", "n", "e", "y">>,
     domains |-> <<"I", "m", "a", "g", "e", " ", "G", "e", "n", "e", "r", "a", "t", "i", "o", "n">>,
     use_cases |-> <<>>,
     short_desc |-> <<>>,
     long_desc |-> <<>>,
     creator |-> <<>>,
     url |-> <<>>,
     platform |-> <<>>,
     pricing |-> <<"P", "a", "i", "d">>,
     underlying_model |-> <<>>]

ScoreCatalogs ==
    {<<RowChatGPT, RowMidjourney>>, <<RowMidjourney, RowChatGPT>>,
     <<RowScenarioChatGPT, RowScenarioMidjourney>>,
     <<RowEmpty, RowCodeWriter>>, <<RowCodeWriter, RowCopilot>>, <<RowEmpty>>}

ScoreQueries ==
    {<<"f", "r", "e", "e", " ", "w", "r", "i", "t", "i", "n", "g", " ", "t", "o", "o", "l">>,
     <<"w", "r", "i", "t", "i", "n", "g", " ", "r", "e", "s", "e", "a", "r", "c", "h">>,
     <<"w", "e", "b", " ", "i", "o", "s">>,
     <<" ", "c", "o", "d", "e", " ">>,
     <<"z", "z", "z">>,
     <<"f", "r", "e", "e">>,
     <<"a", " ", "b">>}

InitScore ==
    /\ ratings = [i \in Instances |-> <<>>]
    /\ alive = {}
    /\ file = [exists |-> FALSE, data |-> <<>>]
    /\ writable = TRUE
    /\ pc = [c \in Callers |-> "idle"]
    /\ pos = [c \in Callers |-> 0]
    /\ agents \in {load_agents(rows) : rows \in ScoreCatalogs}
    /\ user_agents_file = NoFile
    /\ scrape = NoScrape
    /\ last = NoCall

\* the call with the amounts it added and the score it returned
scored(n, query, parts) ==
    [NoCall EXCEPT !.op = "calculate_relevance_score", !.query = query,
                   !.items = <<agents[n]>>, !.parts = parts,
                   !.total = capped(sum_of_parts(parts))]

\* score = self.calculate_relevance_score(agent, query, intent) of search,
\* for entry n of the catalog and the stripped query
CalculateRelevanceScore(n, query) ==
    /\ last' = scored(n, query, score_parts(agents[n], query, extract_intent(query)))
    /\ UNCHANGED <<ratings, alive, file, writable, pc, pos, agents, user_agents_file, scrape>>

\* the caller takes the score or the result list
ScoreReturn ==
    /\ last.op \in {"calculate_relevance_score", "search"}
    /\ last' = NoCall
    /\ UNCHANGED <<ratings, alive, file, writable, pc, pos, agents, user_agents_file, scrape>>

NextScore ==
    \/ \E n \in 1..Len(agents), query \in ScoreQueries :
            last = NoCall /\ CalculateRelevanceScore(n, Strip(query))
    \/ \E query \in ScoreQueries : last = NoCall /\ Search(query, DefaultThreshold)
    \/ ScoreReturn

SpecScore == InitScore /\ [][NextScore]_vars

----------------------------------------------------------------------------
(* The normalisers of Agent.__post_init__ on raw values, and again on the *)
(* values they returned *)

NameChars == {"A", "b", "1", " ", "-", "_", "!"}

\* the strings of at most n characters over NameChars
RECURSIVE NamesUpTo(_)
NamesUpTo(n) ==
    IF n = 0 THEN {<<>>}
    ELSE NamesUpTo(n - 1)
         \cup {Append(name, ch) : name \in {x \in NamesUpTo(n - 1) : Len(x) = n - 1},
                                   ch \in NameChars}

RawPricings ==
    {<<>>,
     <<" ">>,
     <<"f", "r", "e", "e">>,
     <<" ", "F", "R", "E", "E", " ">>,
     <<"F", "r", "e", "e", "m", "i", "u", "m">>,
     <<" ", "f", "r", "e", "e", "m", "i", "u", "m", " ", "t", "i", "e", "r">>,
     <<"P", "a", "i", "d">>,
     <<"$", "1", "0">>,
     <<"s", "u", "b", "s", "c", "r", "i", "p", "t", "i", "o", "n">>,
     <<" ", "C", "o", "n", "t", "a", "c", "t", " ", "u", "s", " ">>,
     <<"U", "n", "k", "n", "o", "w", "n">>,
     <<"p", "l", "a", "n", " ", "b">>,
     <<"O", "p", "e", "n", " ", "s", "o", "u", "r", "c", "e">>}

RawUrls ==
    {<<>>,
     <<" ">>,
     <<"n", "a", "n">>,
     <<" ", "n", "a", "n", " ">>,
     <<"N", "o", "n", "e">>,
     <<"N", "U", "L", "L">>,
     <<" ", "n", "o", "n", "e">>,
     <<"e", "x", "a", "m", "p", "l", "e", ".", "c", "o", "m">>,
     <<" ", "e", "x", "a", "m", "p", "l", "e", ".", "c", "o", "m", " ">>,
     <<"h", "t", "t", "p", ":", "/", "/", "a", ".", "b">>,
     <<"h", "t", "t", "p", "s", ":", "/", "/", "a", ".", "b", " ">>,
     <<"/", "p", "a", "t", "h">>,
     <<"f", "t", "p", ":", "/", "/", "a", ".", "b">>,
     <<"f", "i", "l", "e", ":", "/", "/", "a", ".", "b">>,
     <<"l", "o", "c", "a", "l", "h", "o", "s", "t">>,
     <<"H", "T", "T", "P", ":", "/", "/", "A", ".", "B">>}

\* one normaliser applied to one string
Normalised(op, text, value, again) ==
    [NoCall EXCEPT !.op = op, !.text = text, !.result = value, !.reapplied = again]

\* self.slug = self._create_slug(self.name)
CreateSlug(name) ==
    /\ last' = Normalised("_create_slug", name, _create_slug(name), FALSE)
    /\ UNCHANGED <<ratings, alive, file, writable, pc, pos, agents, user_agents_file, scrape>>

\* self.pricing_clean = self._clean_pricing(self.pricing)
CleanPricing(pricing) ==
    /\ last' = Normalised("_clean_pricing", pricing, _clean_pricing(pricing), FALSE)
    /\ UNCHANGED <<ratings, alive, file, writable, pc, pos, agents, user_agents_file, scrape>>

\* self.url = self._clean_url(self.url)
CleanUrl(url) ==
    /\ last' = Normalised("_clean_url", url, _clean_url(url), FALSE)
    /\ UNCHANGED <<ratings, alive, file, writable, pc, pos, agents, user_agents_file, scrape>>

\* the slug of a name that is itself a slug
CreateSlugAgain ==
    /\ last.op = "_create_slug" /\ ~last.reapplied
    /\ last' = Normalised("_create_slug", last.result, _create_slug(last.result), TRUE)
    /\ UNCHANGED <<ratings, alive, file, writable, pc, pos, agents, user_agents_file, scrape>>

\* the pricing tier of a pricing tier
CleanPricingAgain ==
    /\ last.op = "_clean_pricing" /\ ~last.reapplied
    /\ last' = Normalised("_clean_pricing", last.result, _clean_pricing(last.result), TRUE)
    /\ UNCHANGED <<ratings, alive, file, writable, pc, pos, agents, user_agents_file, scrape>>

\* the URL of a cleaned URL, as for an agent built from the fields of another
CleanUrlAgain ==
    /\ last.op = "_clean_url" /\ ~last.reapplied
    /\ last' = Normalised("_clean_url", last.result, _clean_url(last.result), TRUE)
    /\ UNCHANGED <<ratings, alive, file, writable, pc, pos, agents, user_agents_file, scrape>>

\* the value is used: the next one starts afresh
NormReturn ==
    /\ last.op \in {"_create_slug", "_clean_pricing", "_clean_url"}
    /\ last' = NoCall
    /\ UNCHANGED <<ratings, alive, file, writable, pc, pos, agents, user_agents_file, scrape>>

NextNorm ==
    \/ \E name \in NamesUpTo(MaxNameLen) : last = NoCall /\ CreateSlug(name)
    \/ \E pricing \in RawPricings : last = NoCall /\ CleanPricing(pricing)
    \/ \E url \in RawUrls : last = NoCall /\ CleanUrl(url)
    \/ CreateSlugAgain
    \/ CleanPricingAgain
    \/ CleanUrlAgain
    \/ NormReturn

SpecNorm == Init /\ [][NextNorm]_vars

----------------------------------------------------------------------------
(* Construction of the catalog from the CSV file and user_agents.json *)

UserValues ==
    [status |-> "approved",
     name |-> <<"H", "e", "l", "p", "e", "r", " ", "B", "o", "t">>,
     short_desc |-> <<"H", "e", "l", "p", "s">>,
     creator |-> <<"A", "n", "n">>,
     pricing |-> <<"f", "r", "e", "e">>]

\* an approved record with every key the model gives values for
UserGood == [keys |-> DOMAIN UserValues, values |-> UserValues]

\* an approved record with the two required keys only
UserMinimal ==
    [keys |-> {"status", "name", "short_desc"},
     values |-> [UserValues EXCEPT !.name = <<"T", "i", "n", "y">>]]

\* an approved record without the key 'name'
UserNoName == [keys |-> DOMAIN UserValues \ {"name"}, values |-> UserValues]

\* a record add_user_agent wrote, still to be reviewed
UserPending ==
    [keys |-> DOMAIN UserValues,
     values |-> [UserValues EXCEPT !.status = "pending_review", !.name = <<"L", "a", "t", "e", "r">>]]

\* a record to be reviewed without the key 'short_desc'
UserPendingBad ==
    [keys |-> DOMAIN UserValues \ {"short_desc"},
     values |-> [UserValues EXCEPT !.status = "pending_review"]]

UserRecords == {UserGood, UserMinimal, UserNoName, UserPending, UserPendingBad}

\* the record sequences of at most n records
RECURSIVE RecordSeqs(_)
RecordSeqs(n) ==
    IF n = 0 THEN {<<>>}
    ELSE RecordSeqs(n - 1)
         \cup {Append(records, record) :
                  records \in {r \in RecordSeqs(n - 1) : Len(r) = n - 1},
                  record \in UserRecords}

\* the files a DataLoader can find
Files(contents) ==
    {NoFile, [exists |-> TRUE, parses |-> FALSE, rows |-> <<>>]}
        \cup {[exists |-> TRUE, parses |-> TRUE, rows |-> rows] : rows \in contents}

\* DataLoader(): the constructor loads both files
LoadData(csv_file, user_file) ==
    /\ last = NoCall
    /\ agents = <<>>
    /\ agents' = _load_data(csv_file, user_file)
    /\ last' = [NoCall EXCEPT !.op = "_load_data", !.csv = csv_file,
                              !.user_agents = user_file]
    /\ UNCHANGED <<ratings, alive, file, writable, pc, pos, user_agents_file, scrape>>

\* get_all_agents() on the loaded catalog
GetAllAgents ==
    /\ last.op = "_load_data"
    /\ last' = [last EXCEPT !.op = "get_all_agents", !.items = agents]
    /\ UNCHANGED <<ratings, alive, file, writable, pc, pos, agents, user_agents_file, scrape>>

NextLoad ==
    \/ \E csv_file \in Files(RowSeqs(MaxCatalog)),
          user_file \in Files(RecordSeqs(MaxUserRecords)) : LoadData(csv_file, user_file)
    \/ GetAllAgents

SpecLoad == Init /\ [][NextLoad]_vars

----------------------------------------------------------------------------
(* SpecSubmit: submissions of the add-agent form, the reviewer who approves *)
(* records of user_agents.json, and restarts of the application, which     *)
(* build the catalog anew from the CSV file and user_agents.json           *)

SubmitCsv == [exists |-> TRUE, parses |-> TRUE, rows |-> <<RowChatGPT>>]

\* form data: all fields of the form, the two required ones only, data of a
\* direct call without 'name', and a submission named like a CSV entry
FormData ==
    {[keys |-> {"name", "short_desc", "creator", "pricing"},
      values |-> [UserValues EXCEPT !.name = <<"N", "e", "w", " ", "B", "o", "t">>]],
     [keys |-> {"name", "short_desc"},
      values |-> [UserValues EXCEPT !.name = RowChatGPT.name]],
     [keys |-> {"short_desc"}, values |-> UserValues]}

SubmitFiles ==
    {NoFile, [exists |-> TRUE, parses |-> FALSE, rows |-> <<>>],
     [exists |-> TRUE, parses |-> TRUE, rows |-> <<UserPending>>],
     [exists |-> TRUE, parses |-> TRUE, rows |-> <<UserGood>>]}

InitSubmit ==
    /\ ratings = [i \in Instances |-> <<>>]
    /\ alive = {}
    /\ file = [exists |-> FALSE, data |-> <<>>]
    /\ writable = TRUE
    /\ pc = [c \in Callers |-> "idle"]
    /\ pos = [c \in Callers |-> 0]
    /\ user_agents_file \in SubmitFiles
    /\ agents = _load_data(SubmitCsv, user_agents_file)
    /\ scrape = NoScrape
    /\ last = NoCall

submitted(outcome) ==
    /\ user_agents_file' = outcome.file
    /\ last' = [NoCall EXCEPT !.op = "add_user_agent", !.ok = outcome.ok]

\* data_loader.add_user_agent(agent_data)
AddUserAgent(agent_data, canWrite) ==
    /\ Len(user_agents_file.rows) < MaxSubmissions
    /\ submitted(add_user_agent(user_agents_file, agent_data, canWrite, 1))
    /\ UNCHANGED <<ratings, alive, file, writable, pc, pos, agents, scrape>>

\* the reviewer sets the status of a record of user_agents.json to approved
Approve(k) ==
    /\ k \in 1..Len(user_agents_file.rows)
    /\ user_agents_file.rows[k].values.status = "pending_review"
    /\ user_agents_file' =
          [user_agents_file EXCEPT !.rows[k].values.status = "approved"]
    /\ UNCHANGED <<ratings, alive, file, writable, pc, pos, agents, scrape, last>>

\* the application starts again: data_loader = DataLoader()
Restart ==
    /\ agents' = _load_data(SubmitCsv, user_agents_file)
    /\ last' = [NoCall EXCEPT !.op = "_load_data", !.csv = SubmitCsv,
                              !.user_agents = user_agents_file]
    /\ UNCHANGED <<ratings, alive, file, writable, pc, pos, user_agents_file, scrape>>

NextSubmit ==
    \/ \E agent_data \in FormData, canWrite \in BOOLEAN : AddUserAgent(agent_data, canWrite)
    \/ \E k \in 1..MaxSubmissions : Approve(k)
    \/ Restart
    \/ GetAllAgents
    \/ SearchAgents(Blank, NoFilters)

SpecSubmit == InitSubmit /\ [][NextSubmit]_vars

----------------------------------------------------------------------------
(* SpecRoutes: requests to the lookup, the detail page and the rating form *)
(* of a running application: the catalog is loaded, the rating store of    *)
(* the DataLoader is open and holds no rating                              *)

RouteSlugs ==
    {Blank, <<"c", "h", "a", "t", "g", "p", "t">>,
     <<" ", "c", "h", "a", "t", "g", "p", "t", " ">>,
     <<"m", "i", "d", "j", "o", "u", "r", "n", "e", "y">>,
     <<"z", "z", "z">>}

RouteRatings == {<<>>, <<0>>, <<3>>, <<5>>, <<6>>}

InitRoutes ==
    /\ ratings = [i \in Instances |-> <<>>]
    /\ alive = {"i1"}
    /\ file = [exists |-> FALSE, data |-> <<>>]
    /\ writable = TRUE
    /\ pc = [c \in Callers |-> "idle"]
    /\ pos = [c \in Callers |-> 0]
    /\ agents \in {load_agents(rows) : rows \in RowSeqs(MaxCatalog)}
    /\ user_agents_file = NoFile
    /\ scrape = NoScrape
    /\ last = NoCall

looked_up(slug, lookup) ==
    [NoCall EXCEPT !.op = "get_agent_by_slug", !.slug = slug,
                   !.raised = lookup.raised, !.items = lookup.agent]

\* data_loader.get_agent_by_slug(slug)
GetAgentBySlug(slug) ==
    /\ last' = looked_up(slug, get_agent_by_slug(agents, slug))
    /\ UNCHANGED <<ratings, alive, file, writable, pc, pos, agents, user_agents_file, scrape>>

\* the answer to GET /agent/<slug>: the status, and for a page the related
\* agents and the rating data it shows
detail_response(slug, lookup, status) ==
    [NoCall EXCEPT
        !.op = "agent_detail", !.slug = slug, !.raised = lookup.raised,
        !.response = status,
        !.items = IF status = "200" THEN related_agents(agents, lookup.agent[1], slug)
                  ELSE <<>>,
        !.summary = IF status = "200"
                    THEN get_agent_ratings(ratings["i1"], lookup.agent[1].slug)
                    ELSE NoSummary]

detail_of(slug, lookup) == detail_response(slug, lookup, agent_detail(lookup))

\* GET /agent/<slug>
AgentDetail(slug) ==
    /\ last' = detail_of(slug, get_agent_by_slug(agents, slug))
    /\ UNCHANGED <<ratings, alive, file, writable, pc, pos, agents, user_agents_file, scrape>>

rate_response(slug_field, rating, outcome) ==
    [NoCall EXCEPT !.op = "rate_agent", !.text = slug_field, !.slug = Strip(slug_field),
                   !.rating = IF rating = <<>> THEN 0 ELSE rating[1],
                   !.ok = rating # <<>>,
                   !.response = outcome.response]

rate_step(slug_field, rating, outcome) ==
    /\ ratings' = [ratings EXCEPT !["i1"] = outcome.ratings]
    /\ file' = outcome.file
    /\ last' = rate_response(slug_field, rating, outcome)

\* POST /rate-agent with the form fields agent_slug, rating and feedback
RateAgent(slug_field, rating, feedback_field, remote_addr) ==
    /\ Len(ratings["i1"]) < MaxRouteRatings
    /\ rate_step(slug_field, rating,
                 rate_agent(agents, ratings["i1"], file, writable, Strip(slug_field),
                            rating, Strip(feedback_field), remote_addr, 1))
    /\ UNCHANGED <<alive, writable, pc, pos, agents, user_agents_file, scrape>>

NextRoutes ==
    \/ \E slug \in RouteSlugs : GetAgentBySlug(slug)
    \/ \E slug \in RouteSlugs : GetAgentRatings("i1", slug)
    \/ \E slug \in RouteSlugs : AgentDetail(slug)
    \/ \E slug \in RouteSlugs, rating \in RouteRatings :
            RateAgent(slug, rating, <<" ", "o", "k", " ">>, <<"u">>)

SpecRoutes == InitRoutes /\ [][NextRoutes]_vars

----------------------------------------------------------------------------
(* SpecScrape: AgentDiscoverySystem.scrape_with_retry, one attempt of the  *)
(* loop at a time; what the network answers is the environment's choice    *)

\* what one pass of the loop body meets: a KeyError of self.config before
\* the request, an exception of requests.get or of trafilatura.extract, a
\* status other than 200, status 200 with nothing extracted, status 200
\* with a text
ScrapeOutcomes ==
    {"config_error", "request_error", "extract_error", "http_404", "no_text",
     "text_a", "text_b"}

made_request(outcome) == outcome # "config_error"

raised_exception(outcome) == outcome \in {"config_error", "request_error", "extract_error"}

\* response.status_code == 200 and a non-empty trafilatura.extract(...)
extracted_text(outcome) == outcome \in {"text_a", "text_b"}

scrape_attempt_NoReturn(call, outcome) ==
    [call EXCEPT !.outcomes = Append(@, outcome),
                 !.pc = IF raised_exception(outcome) /\ call.attempt < call.max_retries - 1
                        THEN "sleep" ELSE "loop",
                 !.attempt = IF raised_exception(outcome)
                                /\ call.attempt < call.max_retries - 1
                             THEN @ ELSE @ + 1]

\* one pass of the body of `for attempt in range(max_retries)`: `return text`,
\* the handler with its time.sleep before a further attempt, or the next pass
scrape_attempt(call, outcome) ==
    IF extracted_text(outcome)
    THEN [call EXCEPT !.outcomes = Append(@, outcome), !.pc = "done",
                      !.returned = <<outcome>>]
    ELSE [call EXCEPT !.outcomes = Append(@, outcome),
                      !.pc = IF raised_exception(outcome)
                                /\ call.attempt < call.max_retries - 1
                             THEN "sleep" ELSE "loop",
                      !.attempt = IF raised_exception(outcome)
                                     /\ call.attempt < call.max_retries - 1
                                  THEN @ ELSE @ + 1]

\* scrape_with_retry(url, max_retries) is called
ScrapeCall(max_retries) ==
    /\ scrape.pc = "idle"
    /\ scrape' = [NoScrape EXCEPT !.pc = "loop", !.max_retries = max_retries]
    /\ UNCHANGED <<ratings, alive, file, writable, pc, pos, agents, user_agents_file, last>>

\* the loop body runs for the index scrape.attempt
ScrapeAttempt(outcome) ==
    /\ scrape.pc = "loop"
    /\ scrape.attempt < scrape.max_retries
    /\ scrape' = scrape_attempt(scrape, outcome)
    /\ UNCHANGED <<ratings, alive, file, writable, pc, pos, agents, user_agents_file, last>>

\* time.sleep(request_delay * (attempt + 1)) is over
ScrapeSleep ==
    /\ scrape.pc = "sleep"
    /\ scrape' = [scrape EXCEPT !.pc = "loop", !.attempt = @ + 1]
    /\ UNCHANGED <<ratings, alive, file, writable, pc, pos, agents, user_agents_file, last>>

\* range(max_retries) is used up: `return None`, here no text
ScrapeGiveUp ==
    /\ scrape.pc = "loop"
    /\ scrape.attempt >= scrape.max_retries
    /\ scrape' = [scrape EXCEPT !.pc = "done"]
    /\ UNCHANGED <<ratings, alive, file, writable, pc, pos, agents, user_agents_file, last>>

\* the caller takes the result
ScrapeReturn ==
    /\ scrape.pc = "done"
    /\ scrape' = NoScrape
    /\ UNCHANGED <<ratings, alive, file, writable, pc, pos, agents, user_agents_file, last>>

NextScrape ==
    \/ \E max_retries \in 0..MaxRetries : ScrapeCall(max_retries)
    \/ \E outcome \in ScrapeOutcomes : ScrapeAttempt(outcome)
    \/ ScrapeSleep
    \/ ScrapeGiveUp
    \/ ScrapeReturn

\* the thread that runs the call keeps running: requests.get is called with
\* a timeout and time.sleep with a finite delay
SpecScrape == Init /\ [][NextScrape]_vars /\ WF_vars(NextScrape)

----------------------------------------------------------------------------
(* Claims about the rating store *)

IsPrefix(a, b) == Len(a) <= Len(b) /\ SubSeq(b, 1, Len(a)) = a

Count(e, list) == Cardinality({k \in 1..Len(list) : list[k] = e})

\* Every aggregate the store serves, for one rating list
Aggregates(list) ==
    <<[s \in Slugs |-> get_agent_ratings(list, s)],
      get_top_rated_agents(list, 1, MaxRatings + 1),
      get_recent_reviews(list, MaxRatings + 1)>>

\* C1: add_rating with a score outside 1..5 returns failure and leaves the
\* rating list, the ratings file and every aggregate as they were.
C1_InvalidScoreRejected ==
    [][(last'.op = "add_rating" /\ last'.rating \notin 1..5)
        => /\ last'.ok = FALSE
           /\ ratings' = ratings
           /\ file' = file
           /\ \A i \in Instances : Aggregates(ratings'[i]) = Aggregates(ratings[i])]_vars

C1_Witness ==
    /\ last.op = "add_rating"
    /\ last.rating \in {0, 6}
    /\ ~last.ok
    /\ Len(ratings[last.inst]) = MaxRatings - 1
    /\ file.data = ratings[last.inst]

\* C2: a step in which add_rating(slug, s) returns success leaves the
\* instance in a state where get_agent_ratings(slug) counts one rating more
\* in total and one more in bucket s than before the call.
C2_ReadYourWrites ==
    [][\A i \in Instances, slug \in Slugs, s \in 1..5 :
        (/\ last'.op = "add_rating" /\ last'.ok
         /\ last'.inst = i /\ last'.slug = slug /\ last'.rating = s
         /\ writable' = writable)
        => LET old == get_agent_ratings(ratings[i], slug)
               new == get_agent_ratings(ratings'[i], slug)
           IN  /\ new.total_ratings = old.total_ratings + 1
               /\ new.ratings_breakdown[s] = old.ratings_breakdown[s] + 1]_vars

C2_Witness ==
    /\ last.op = "add_rating"
    /\ last.ok
    /\ get_agent_ratings(ratings[last.inst], last.slug).total_ratings = 2
    /\ get_agent_ratings(ratings[last.inst], last.slug).ratings_breakdown[last.rating] = 1

\* C3: once every add_rating call has completed, no rating an instance holds
\* (loaded from the file or added by a completed call) is missing from the
\* ratings file.
C3_NoLostUpdate ==
    (\A c \in Callers : pc[c] = "idle")
    => \A i \in alive : \A k \in 1..Len(ratings[i]) :
          Count(ratings[i][k], ratings[i]) <= Count(ratings[i][k], file.data)

\* C4: add_rating returns success only if the full list, the new rating
\* included, was persisted.
C4_PersistFailureReported ==
    (last.op = "add_rating" /\ last.ok)
    => (file.exists /\ file.data = ratings[last.inst])

\* C5: no call on the store removes, modifies or reorders a rating: every
\* step leaves each instance's list a prefix of its next value.
C5_AppendOnly ==
    [][\A i \in Instances : IsPrefix(ratings[i], ratings'[i])]_vars

C5_Witness ==
    /\ last.op = "get_recent_reviews"
    /\ Len(ratings[last.inst]) = MaxRatings
    /\ ratings[last.inst][1] # ratings[last.inst][2]

----------------------------------------------------------------------------
(* Claims about the aggregates *)

\* positions of the ratings of one slug
Of(list, slug) == {k \in 1..Len(list) : list[k].agent_slug = slug}

\* number of ratings of one slug with score k
Bucket(list, slug, k) == Cardinality({j \in Of(list, slug) : list[j].rating = k})

ScoreTotal(list, slug) ==
    Bucket(list, slug, 1) + 2 * Bucket(list, slug, 2) + 3 * Bucket(list, slug, 3)
        + 4 * Bucket(list, slug, 4) + 5 * Bucket(list, slug, 5)

\* tenths is a nearest tenth of total / n
NearestTenth(tenths, total, n) ==
    /\ 2 * (10 * total - tenths * n) <= n
    /\ 2 * (tenths * n - 10 * total) <= n

\* C6: for a slug with ratings, get_agent_ratings returns their number, the
\* count of each score 1..5 and the mean rounded to one decimal, whatever the
\* other slugs' ratings; scores [5,5,4,3,5] give 4.4, 5, {3:1, 4:1, 5:3}.
C6_AggregationCorrect ==
    (last.op = "get_agent_ratings" /\ Of(ratings[last.inst], last.slug) # {})
    => LET list == ratings[last.inst]
           n == Cardinality(Of(list, last.slug))
           r == last.summary
       IN  /\ r.total_ratings = n
           /\ DOMAIN r.ratings_breakdown = 1..5
           /\ \A k \in 1..5 : r.ratings_breakdown[k] = Bucket(list, last.slug, k)
           /\ Sum(r.ratings_breakdown) = r.total_ratings
           /\ NearestTenth(r.average_rating, ScoreTotal(list, last.slug), n)
           /\ LET mine == SelectSeq(list, LAMBDA e : e.agent_slug = last.slug)
              IN  ([j \in 1..Len(mine) |-> mine[j].rating] = <<5, 5, 4, 3, 5>>)
                  => (r.average_rating = 44 /\ r.total_ratings = 5
                      /\ r.ratings_breakdown = <<0, 0, 1, 1, 3>>)

C6_Witness ==
    /\ last.op = "get_agent_ratings"
    /\ last.slug = SlugX
    /\ [j \in 1..Len(ratings["i1"]) |-> ratings["i1"][j].rating] = <<5, 5, 1, 4, 3, 5>>
    /\ ratings["i1"][3].agent_slug = SlugY
    /\ last.summary.average_rating = 44

\* positions of the ratings of one slug that carry feedback
WithFeedback(list, slug) == {k \in Of(list, slug) : list[k].feedback # <<>>}

Min(a, b) == IF a < b THEN a ELSE b

\* C7: recent_reviews holds only ratings of the slug with feedback, at most
\* 5 of them, newest first, and for every time t as many reviews from t on
\* as the list has, up to 5 (so the 5 newest when there are more).
C7_RecentReviews ==
    (last.op = "get_agent_ratings")
    => LET list == ratings[last.inst]
           rev == last.summary.recent_reviews
           F == WithFeedback(list, last.slug)
       IN  /\ Len(rev) <= 5
           /\ \A j \in 1..Len(rev) :
                 /\ rev[j].agent_slug = last.slug
                 /\ rev[j].feedback # <<>>
                 /\ Count(rev[j], rev) <= Count(rev[j], list)
           /\ \A j \in 1..(Len(rev) - 1) : rev[j].timestamp >= rev[j + 1].timestamp
           /\ \A t \in {list[k].timestamp : k \in 1..Len(list)} \cup {0} :
                 Cardinality({j \in 1..Len(rev) : rev[j].timestamp >= t})
                     = Min(5, Cardinality({k \in F : list[k].timestamp >= t}))

C7_Witness ==
    /\ last.op = "get_agent_ratings"
    /\ last.slug = SlugX
    /\ Cardinality(WithFeedback(ratings["i1"], SlugX)) = 6
    /\ ratings["i1"][1].timestamp = 1
    /\ ratings["i1"][2].timestamp = 3
    /\ Len(last.summary.recent_reviews) = 5
    /\ last.summary.recent_reviews[1].timestamp = 3
    /\ last.summary.recent_reviews[5].timestamp = 2

\* C8: every item get_top_rated_agents returns is a slug with at least
\* min_ratings ratings, and reports exactly the number of its ratings.
C8_TopRatedMinimum ==
    (last.op = "get_top_rated_agents")
    => \A j \in 1..Len(last.items) :
          LET n == Cardinality(Of(ratings[last.inst], last.items[j].agent_slug))
          IN  n >= last.min_ratings /\ last.items[j].total_ratings = n

C8_Witness ==
    /\ last.op = "get_top_rated_agents"
    /\ last.min_ratings = 2
    /\ Len(last.items) = 1
    /\ Cardinality({ratings["i1"][k].agent_slug : k \in 1..Len(ratings["i1"])}) = 3

\* a ranks at least as high as b: higher average, or equal average and at
\* least as many ratings
RanksAtLeast(a, b) ==
    \/ a.average_rating > b.average_rating
    \/ a.average_rating = b.average_rating /\ a.total_ratings >= b.total_ratings

\* C9: get_top_rated_agents returns min(limit, number of qualifying slugs)
\* items, one per slug, by average descending then count descending, and no
\* qualifying slug left out ranks above a returned one.
C9_TopRatedOrder ==
    (last.op = "get_top_rated_agents")
    => LET list == ratings[last.inst]
           items == last.items
           Q == {s \in TopSlugs : /\ Cardinality(Of(list, s)) >= last.min_ratings
                                  /\ Of(list, s) # {}}
           R == {items[j].agent_slug : j \in 1..Len(items)}
       IN  /\ Len(items) <= last.limit
           /\ Len(items) = Min(last.limit, Cardinality(Q))
           /\ Cardinality(R) = Len(items)
           /\ R \subseteq Q
           /\ \A j \in 1..(Len(items) - 1) : RanksAtLeast(items[j], items[j + 1])
           /\ \A s \in Q \ R : \A j \in 1..Len(items) :
                 RanksAtLeast(items[j], top_agent(list, s))

C9_Witness ==
    /\ last.op = "get_top_rated_agents"
    /\ last.limit = 2
    /\ last.min_ratings = 1
    /\ Len(last.items) = 2
    /\ last.items[1].average_rating = last.items[2].average_rating
    /\ last.items[1].total_ratings > last.items[2].total_ratings
    /\ ratings["i1"][1].agent_slug = last.items[2].agent_slug
    /\ Cardinality({ratings["i1"][k].agent_slug : k \in 1..Len(ratings["i1"])}) = 3


----------------------------------------------------------------------------
(* Claims about the search *)

OnlyWhitespace(s) == \A k \in 1..Len(s) : s[k] \in {" ", "\t", "\n"}

\* C10: a search with an empty or whitespace-only query returns the catalog
\* entries unchanged and in catalog order, from IntelligentSearch.search and,
\* when no filter is given, from DataLoader.search_agents.
C10_EmptyQueryIdentity ==
    /\ (last.op = "search" /\ OnlyWhitespace(last.query)) => last.items = agents
    /\ (last.op = "search_agents" /\ OnlyWhitespace(last.query)
            /\ last.filters = NoFilters) => last.items = agents

C10_Witness ==
    /\ last.op = "search_agents"
    /\ last.query = <<" ", "\t", " ">>
    /\ last.filters = NoFilters
    /\ agents = load_agents(<<RowMidjourney, RowChatGPT>>)
    /\ last.items = agents
    /\ search(agents, <<"f", "r", "e", "e", " ", "w", "r", "i", "t", "i", "n", "g", " ", "t", "o", "o", "l">>, DefaultThreshold)
           = load_agents(<<RowChatGPT, RowMidjourney>>)

\* the score search gives the n-th catalog entry for the query of the last call
Score(n) ==
    calculate_relevance_score(agents[n], Strip(last.query),
                              extract_intent(Strip(last.query)))

\* the scores of the first k catalog entries
RECURSIVE Scores(_)
Scores(k) == IF k = 0 THEN <<>> ELSE Append(Scores(k - 1), Score(k))

\* the catalog positions whose score reaches the threshold
Kept(scores, threshold) == {n \in 1..Len(scores) : scores[n] >= threshold}

\* the place of a kept entry in the result: after the kept entries of higher
\* score and after those of equal score that come earlier in the catalog
Rank(scores, threshold, n) ==
    1 + Cardinality({m \in Kept(scores, threshold) :
                        scores[m] > scores[n] \/ (scores[m] = scores[n] /\ m < n)})

\* items holds exactly the kept entries, each at its place
StablyRanked(items, scores, threshold) ==
    /\ Len(items) = Cardinality(Kept(scores, threshold))
    /\ \A n \in Kept(scores, threshold) : items[Rank(scores, threshold, n)] = agents[n]

\* C11: for a query that is not empty, search returns exactly the entries
\* whose score reaches the threshold, by descending score, entries of equal
\* score in their catalog order.
C11_ThresholdAndStableOrder ==
    (last.op = "search" /\ ~OnlyWhitespace(last.query)) =>
        StablyRanked(last.items, Scores(Len(agents)), last.threshold)

C11_Witness ==
    /\ last.op = "search"
    /\ last.query = <<"w", "e", "b">>
    /\ last.threshold = DefaultThreshold
    /\ agents = load_agents(<<RowMidjourney, RowChatGPT>>)
    /\ Score(1) = 332
    /\ Score(2) = 332
    /\ last.items = agents

\* C12: the list search returns holds no two entries of the same slug.
C12_ResultDeduplicated ==
    last.op = "search" =>
        \A i, j \in 1..Len(last.items) :
            i # j => last.items[i].slug # last.items[j].slug

\* s can be had from t by leaving entries out
RECURSIVE IsSubsequence(_, _)
IsSubsequence(s, t) ==
    IF s = <<>> THEN TRUE
    ELSE IF t = <<>> THEN FALSE
    ELSE IF Head(s) = Head(t) THEN IsSubsequence(Tail(s), Tail(t))
    ELSE IsSubsequence(s, Tail(t))

\* what search_agents filters: the catalog, or the ranking of a query
Ranked ==
    IF last.query = <<>> THEN agents ELSE search(agents, last.query, DefaultThreshold)

\* C13: search_agents returns entries of the step before the filters (the
\* catalog without a query, the ranking of the query with one), in the order
\* of that step: the filters add nothing and reorder nothing.
C13_FilterKeepsOrder ==
    last.op = "search_agents" =>
        /\ IsSubsequence(last.items, Ranked)
        /\ \A k \in 1..Len(last.items) : \E n \in 1..Len(agents) : last.items[k] = agents[n]

C13_Witness ==
    /\ last.op = "search_agents"
    /\ last.query = <<"f", "r", "e", "e", " ", "w", "r", "i", "t", "i", "n", "g", " ", "t", "o", "o", "l">>
    /\ last.filters = [NoFilters EXCEPT !.domain = <<"W", "r", "i", "t", "i", "n", "g">>]
    /\ agents = load_agents(<<RowChatGPT, RowCopilot>>)
    /\ last.items = load_agents(<<RowCopilot, RowChatGPT>>)

\* C14: search_agents and /api/search with the criterion pricing = "Free"
\* on a catalog that is not empty and has no entry of the tier "Free" return
\* the empty list.
C14_PricingFilterApplied ==
    (/\ last.op \in {"search_agents", "api_search"}
     /\ last.filters.pricing = PricingFree
     /\ agents # <<>>
     /\ \A n \in 1..Len(agents) : agents[n].pricing_clean # PricingFree)
        => last.items = <<>>

\* the entry meets every criterion that is given: domain, use case and
\* platform are among its tokens, model and creator occur in its fields
\* whatever the case of the letters
Satisfies(agent, criteria) ==
    /\ criteria.domain # <<>> => criteria.domain \in Range(agent.domain_list)
    /\ criteria.use_case # <<>> => criteria.use_case \in Range(agent.use_case_list)
    /\ criteria.platform # <<>> => criteria.platform \in Range(agent.platform_list)
    /\ criteria.model # <<>> =>
           Contains(Lower(criteria.model), Lower(agent.underlying_model))
    /\ criteria.creator # <<>> =>
           Contains(Lower(criteria.creator), Lower(agent.creator))

\* C15: without a query search_agents returns exactly the catalog entries
\* that meet every given criterion among domain, use_case, platform, model
\* and creator, in catalog order; criteria that are absent or empty are ignored.
C15_FiltersConjunction ==
    (last.op = "search_agents" /\ last.query = <<>>) =>
        last.items = SelectSeq(agents, LAMBDA agent : Satisfies(agent, last.filters))

C15_Witness ==
    /\ last.op = "search_agents"
    /\ last.query = <<>>
    /\ last.filters = AllFilters
    /\ agents = load_agents(<<RowCopilot, RowChatGPT>>)
    /\ last.items = load_agents(<<RowChatGPT>>)

\* the filters of the last call on the catalog, then the ranking of its query
FilterThenSearch ==
    search(search_agents(agents, <<>>, last.filters), last.query, DefaultThreshold)

\* the score of an entry for the query of the last call
ScoreOf(agent) ==
    calculate_relevance_score(agent, Strip(last.query), extract_intent(Strip(last.query)))

\* the scores of the first k entries of a list
RECURSIVE ScoresOf(_, _)
ScoresOf(list, k) == IF k = 0 THEN <<>> ELSE Append(ScoresOf(list, k - 1), ScoreOf(list[k]))

Descending(scores) == \A k \in 1..(Len(scores) - 1) : scores[k] >= scores[k + 1]

\* two lists of the same entries, both by descending score when there is a query
SameEntriesRanked(one, other) ==
    /\ Range(one) = Range(other)
    /\ Len(one) = Len(other)
    /\ ~OnlyWhitespace(last.query) =>
           /\ Descending(ScoresOf(one, Len(one)))
           /\ Descending(ScoresOf(other, Len(other)))

\* C16: ranking then filtering (search_agents) and filtering then ranking give
\* the same set of entries, and with a query that is not empty both lists are
\* in descending order of score.
C16_SearchFilterCommute ==
    last.op = "search_agents" => SameEntriesRanked(last.items, FilterThenSearch)

C16_Witness ==
    /\ last.op = "search_agents"
    /\ last.query = <<" ", "c", "o", "d", "e", " ">>
    /\ last.filters = [NoFilters EXCEPT !.domain = <<"W", "r", "i", "t", "i", "n", "g">>]
    /\ agents = load_agents(<<RowChatGPT, RowCopilot>>)
    /\ last.items = load_agents(<<RowCopilot, RowChatGPT>>)
    /\ FilterThenSearch = last.items

Facets == {"domains", "use_cases", "platforms", "pricing", "models", "creators"}

\* the values of a facet that the entries of the catalog show
Observed(facet) ==
    CASE facet = "domains" -> UNION {Range(agents[n].domain_list) : n \in 1..Len(agents)}
      [] facet = "use_cases" -> UNION {Range(agents[n].use_case_list) : n \in 1..Len(agents)}
      [] facet = "platforms" -> UNION {Range(agents[n].platform_list) : n \in 1..Len(agents)}
      [] facet = "pricing" -> {agents[n].pricing_clean : n \in 1..Len(agents)}
      [] facet = "models" -> {Strip(agents[n].underlying_model) : n \in 1..Len(agents)}
      [] facet = "creators" -> {Strip(agents[n].creator) : n \in 1..Len(agents)}

StrictlyAscending(list) == \A k \in 1..(Len(list) - 1) : StrLess(list[k], list[k + 1])

\* the options give every facet, each as the ascending list of the values
\* observed that are not empty
FacetsOfCatalog(options) ==
    /\ DOMAIN options = Facets
    /\ \A facet \in Facets :
          /\ StrictlyAscending(options[facet])
          /\ Range(options[facet]) = Observed(facet) \ {<<>>}

\* C17: for every catalog, the empty one included, get_filter_options returns
\* for each of the six facets the sorted list of the distinct values, not
\* empty, of the entries now in the catalog.
C17_FilterOptionsOfCatalog ==
    last.op = "get_filter_options" => FacetsOfCatalog(last.options)

\* the same for the catalogs that are not empty
C17_NonEmptyCatalog ==
    (last.op = "get_filter_options" /\ agents # <<>>) => FacetsOfCatalog(last.options)

\* C18: a slug holds lowercase letters, digits and hyphens only, no two
\* hyphens in a row and none at either end.
C18_SlugCharacters ==
    last.op = "_create_slug" =>
        /\ \A k \in 1..Len(last.result) :
              last.result[k] \in Range(LowerCase) \cup Range(Digits) \cup {"-"}
        /\ \A k \in 1..(Len(last.result) - 1) :
              ~(last.result[k] = "-" /\ last.result[k + 1] = "-")
        /\ last.result # <<>> =>
              (last.result[1] # "-" /\ last.result[Len(last.result)] # "-")

\* C19: a normaliser applied to a value it returned returns that value, for
\* _create_slug, _clean_pricing and _clean_url.
C19_NormalisationIdempotent ==
    last.reapplied => last.result = last.text

\* the record is approved and has the keys the loader reads
WellFormed(record) == is_approved(record) /\ {"name", "short_desc"} \subseteq record.keys

\* C20: when both files are read, every row of the CSV file and every approved
\* well-formed record of user_agents.json is in the catalog, whatever
\* malformed records come before or after it.
C20_MalformedRowsSkipped ==
    (/\ last.op \in {"_load_data", "get_all_agents"}
     /\ last.csv.exists /\ last.csv.parses
     /\ last.user_agents.exists /\ last.user_agents.parses)
        => /\ \A k \in 1..Len(last.csv.rows) : Agent(last.csv.rows[k]) \in Range(agents)
           /\ \A k \in 1..Len(last.user_agents.rows) :
                 WellFormed(last.user_agents.rows[k]) =>
                     Agent(user_row(last.user_agents.rows[k])) \in Range(agents)

----------------------------------------------------------------------------
(* Claims about the lookup and the routes *)

InCatalog(slug) == \E n \in 1..Len(agents) : agents[n].slug = slug

\* C21: get_agent_by_slug raises for a slug of no catalog entry, returning
\* neither an entry nor an empty value, and returns an entry of that slug
\* otherwise; get_agent_ratings of a slug without ratings returns average 0,
\* count 0, five buckets of 0 and no review, so the two outcomes differ.
C21_NotFoundDistinct ==
    /\ (last.op = "get_agent_by_slug" /\ ~InCatalog(last.slug))
          => (last.raised = "ValueError" /\ last.items = <<>>)
    /\ (last.op = "get_agent_by_slug" /\ InCatalog(last.slug))
          => (last.raised = "" /\ Len(last.items) = 1 /\ last.items[1].slug = last.slug)
    /\ (last.op = "get_agent_ratings" /\ InCatalog(last.slug)
        /\ Of(ratings[last.inst], last.slug) = {})
          => /\ last.raised = ""
             /\ last.summary.average_rating = 0
             /\ last.summary.total_ratings = 0
             /\ \A k \in 1..5 : last.summary.ratings_breakdown[k] = 0
             /\ DOMAIN last.summary.ratings_breakdown = 1..5
             /\ last.summary.recent_reviews = <<>>

C21_Witness ==
    /\ last.op = "get_agent_by_slug"
    /\ last.raised = "ValueError"
    /\ Len(agents) = MaxCatalog
    /\ ratings["i1"] # <<>>

\* the slug of every stored rating is the slug of a catalog entry and its
\* score is one of 1..5
StoredForCatalog(list) ==
    \A k \in 1..Len(list) : InCatalog(list[k].agent_slug) /\ list[k].rating \in 1..5

\* the request names no slug, no score or a score outside 1..5, or a slug of
\* no catalog entry
Refused(call) ==
    \/ call.slug = <<>>
    \/ ~call.ok \/ call.rating \notin 1..5
    \/ ~InCatalog(call.slug)

\* C27: after any sequence of rate_agent requests from an empty store, every
\* rating in the list and in the ratings file belongs to the slug of a
\* catalog entry and has a score in 1..5, and a request with a missing slug,
\* a missing or out-of-range score or an unknown slug changes neither.
C27_RatedSlugsInCatalog ==
    /\ [](StoredForCatalog(ratings["i1"]) /\ StoredForCatalog(file.data))
    /\ [][(last'.op = "rate_agent" /\ Refused(last'))
            => (ratings' = ratings /\ file' = file)]_vars

C27_Witness ==
    /\ last.op = "rate_agent"
    /\ last.response = "rating_success"
    /\ last.text # last.slug
    /\ Len(ratings["i1"]) = 2
    /\ file.data = ratings["i1"]
    /\ ratings["i1"][1].agent_slug # ratings["i1"][2].agent_slug

\* C29: GET /agent/<slug> for a slug of no catalog entry is answered with
\* status 404, neither with 500 nor with a detail page.
C29_UnknownSlugIs404 ==
    (last.op = "agent_detail" /\ ~InCatalog(last.slug)) => last.response = "404"

----------------------------------------------------------------------------
(* Claims about the relevance score *)

FreeWritingTool ==
    <<"f", "r", "e", "e", " ", "w", "r", "i", "t", "i", "n", "g", " ", "t", "o", "o", "l">>

IsChatGPT(agent) ==
    /\ agent.name = <<"C", "h", "a", "t", "G", "P", "T">>
    /\ agent.domains = <<"W", "r", "i", "t", "i", "n", "g", ";", "R", "e", "s", "e", "a", "r", "c", "h">>
    /\ agent.pricing = PricingFreemium

IsMidjourney(agent) ==
    /\ agent.name = <<"M", "i", "d", "j", "o", "u", "r", "n", "e", "y">>
    /\ agent.domains = <<"I", "m", "a", "g", "e", " ", "G", "e", "n", "e", "r", "a", "t", "i", "o", "n">>
    /\ agent.pricing_clean = PricingPaid

\* the catalog holds ChatGPT and Midjourney, in either order
ScenarioCatalog ==
    /\ Len(agents) = 2
    /\ \E c \in 1..2 : IsChatGPT(agents[c]) /\ IsMidjourney(agents[3 - c])

ScenarioScore(agent) ==
    calculate_relevance_score(agent, FreeWritingTool, extract_intent(FreeWritingTool))

\* C22: for the catalog of ChatGPT (domains "Writing;Research", pricing
\* "Freemium") and Midjourney (domains "Image Generation", pricing "Paid")
\* and the query "free writing tool", ChatGPT scores strictly more than
\* Midjourney and comes first in the search result, and both the domain
\* bonus and the pricing bonus are part of ChatGPT's score.
C22_ScenarioRanking ==
    /\ (ScenarioCatalog /\ last.op = "search" /\ last.query = FreeWritingTool)
          => /\ Len(last.items) >= 1 /\ IsChatGPT(last.items[1])
             /\ \A c \in 1..2 : IsChatGPT(agents[c]) =>
                    ScenarioScore(agents[c]) > ScenarioScore(agents[3 - c])
    /\ (ScenarioCatalog /\ last.op = "calculate_relevance_score"
        /\ last.query = FreeWritingTool /\ IsChatGPT(last.items[1]))
          => (last.parts.domain > 0 /\ last.parts.pricing > 0)

\* a label matched by the query is similar to a token of the entry
SimilarLabel(labels, tokens) ==
    \E j \in 1..Len(labels), n \in 1..Len(tokens) :
        fuzz_ratio(Lower(labels[j]), Lower(tokens[n])) > 80

\* C23: the domain bonus of a score is 0.3 when a matched domain label is
\* similar to a domain token of the entry and 0 otherwise, however many
\* matched labels are similar; the platform bonus likewise is 0.2 or 0.
C23_SingleFacetBonus ==
    (last.op = "calculate_relevance_score")
        => /\ last.parts.domain =
                 IF SimilarLabel(extract_intent(last.query).domains, last.items[1].domain_list)
                 THEN 300 ELSE 0
           /\ last.parts.platform =
                 IF SimilarLabel(extract_intent(last.query).platforms,
                                 last.items[1].platform_list)
                 THEN 200 ELSE 0

\* the keywords of the query that are similar to a use-case token of the entry
UseCaseKeywords(keywords, tokens) ==
    {k \in 1..Len(keywords) :
        \E n \in 1..Len(tokens) : fuzz_partial_ratio(keywords[k], Lower(tokens[n])) > 70}

\* C24: the use-case part of a score is 0.1 for each content keyword that
\* is similar to at least one use-case token of the entry, counted once
\* however many tokens it is similar to.
C24_UseCaseOncePerKeyword ==
    (last.op = "calculate_relevance_score")
        => last.parts.use_case =
              100 * Cardinality(UseCaseKeywords(extract_intent(last.query).keywords,
                                                last.items[1].use_case_list))

\* C25: every score calculate_relevance_score returns lies in [0, 1]: no
\* part is negative and the sum of the parts is cut at 1.0.
C25_ScoreBounded ==
    (last.op = "calculate_relevance_score")
        => /\ 0 <= last.total /\ last.total <= 1000
           /\ \A part \in DOMAIN last.parts : last.parts[part] >= 0
           /\ last.total = Min(sum_of_parts(last.parts), 1000)

C25_Witness ==
    /\ last.op = "calculate_relevance_score"
    /\ sum_of_parts(last.parts) > 1000
    /\ last.total = 1000
    /\ last.parts.keyword >= 600
    /\ last.parts.use_case = 200

AllEmpty(agent) ==
    /\ agent.name = <<>> /\ agent.short_desc = <<>> /\ agent.long_desc = <<>>
    /\ agent.domains = <<>> /\ agent.use_cases = <<>> /\ agent.creator = <<>>
    /\ agent.platform = <<>> /\ agent.pricing = <<>>

\* C26: for a query that is not empty, an entry whose text fields are all
\* empty scores 0 and is not in the search result.
C26_EmptyEntryExcluded ==
    /\ (last.op = "calculate_relevance_score" /\ AllEmpty(last.items[1]))
          => last.total = 0
    /\ (last.op = "search" /\ ~EmptyQuery(last.query))
          => \A k \in 1..Len(last.items) : ~AllEmpty(last.items[k])

----------------------------------------------------------------------------
(* Claims about user submissions *)

\* the entries of the catalog that come after those of the CSV file
UserEntries == SubSeq(agents, Len(SubmitCsv.rows) + 1, Len(agents))

\* the records of user_agents.json with the status
WithStatus(status) ==
    {k \in 1..Len(user_agents_file.rows) :
        /\ "status" \in user_agents_file.rows[k].keys
        /\ user_agents_file.rows[k].values.status = status}

\* C28: add_user_agent appends a record of status pending_review to
\* user_agents.json and leaves the catalog as it is, the catalog changes
\* only when it is loaded, and every catalog entry that is not a CSV row is
\* the agent of a record whose status is approved, so no record that is
\* pending review is in the catalog get_all_agents and search_agents return.
C28_PendingNotInCatalog ==
    /\ [](/\ \A n \in 1..Len(UserEntries) :
                \E k \in WithStatus("approved") :
                    UserEntries[n] = Agent(user_row(user_agents_file.rows[k]))
          /\ Len(UserEntries) <= Cardinality(WithStatus("approved"))
          /\ last.op \in {"get_all_agents", "search_agents"} => last.items = agents)
    /\ [][(Len(user_agents_file'.rows) > Len(user_agents_file.rows))
            => /\ agents' = agents
               /\ last'.op = "add_user_agent" /\ last'.ok
               /\ user_agents_file'.rows[Len(user_agents_file'.rows)].values.status
                      = "pending_review"
               /\ SubSeq(user_agents_file'.rows, 1, Len(user_agents_file.rows))
                      = user_agents_file.rows]_vars
    /\ [][agents' # agents => last'.op = "_load_data"]_vars

C28_Witness ==
    /\ last.op = "get_all_agents"
    /\ Len(user_agents_file.rows) = 2
    /\ "id" \in user_agents_file.rows[1].keys
    /\ WithStatus("approved") = {1}
    /\ WithStatus("pending_review") = {2}
    /\ Len(last.items) = 2
    /\ last.items[2].name = user_agents_file.rows[1].values.name

----------------------------------------------------------------------------
(* Claims about scrape_with_retry *)

Requests(outcomes) == Cardinality({k \in 1..Len(outcomes) : made_request(outcomes[k])})

\* the first k outcomes are failures: an exception, a status other than 200
\* or an empty extraction
AllFailed(outcomes, k) == \A j \in 1..k : ~extracted_text(outcomes[j])

C30_WitnessNone ==
    /\ scrape.pc = "done"
    /\ scrape.max_retries = 3
    /\ scrape.returned = <<>>
    /\ scrape.outcomes = <<"config_error", "http_404", "extract_error">>

====
